---- MODULE Spec2Model ----
(***************************************************************************)
(* The inter-module messaging substrate of the DPT services.               *)
(*                                                                         *)
(* Two generations of the endpoint class live in the repository:           *)
(*   BaseModule (base_module.py): correlated requests, [req_id, payload]   *)
(*     frames, no handshake, no health monitoring;                         *)
(*   DptModule (base_module/.../dpt_module.py): handshake on registration, *)
(*     a heartbeat socket per peer, a dispatcher feeding server_msg_queue. *)
(* The variable "variant" says which class the endpoint under study is an  *)
(* instance of; every action belongs to one class.                         *)
(***************************************************************************)
EXTENDS Integers, Sequences, FiniteSets, TLC

VARIABLES
    variant,          \* "base": a BaseModule endpoint; "dptc", "dptm", "dpts": a DptModule endpoint
    now,              \* the clock (time.time() and the poll timers read it)
    client_sockets,   \* dict address -> DEALER socket (its receive queue)
    server_socket,    \* per peer address: the frames waiting on the peer's ROUTER socket
    pending,          \* per peer address: requests its application took with server_receive
    task,             \* per caller task of the endpoint: where it is in transmit/receive
    client_hc_sockets,    \* DptModule: dict address -> heartbeat socket, in insertion order
    interrupted_sockets,  \* DptModule: list of the addresses whose last probe failed
    reg,              \* DptModule: the register_connection call in progress
    hl,               \* DptModule: the client_loop task (health monitor)
    caller,           \* DptModule: the task calling client_transmit / client_receive
    server_msg_queue, \* DptModule, per server address: the asyncio.Queue of the dispatcher
    srv,              \* DptModule, per server address: the server_loop task
    app,              \* DptModule, per server address: the item its application holds
    last,             \* DptModule, per server address: what the last dispatcher step did
    arrived,          \* DptModule, per server address: application frames that reached its socket
    delivered,        \* DptModule, per server address: the items server_receive has returned
    flushed,          \* DptModule, per server address: how the flush_server_queue call ended
    cancelled,        \* DptModule, per server address: a cancelled dispatcher task not yet ended
    received,         \* DptModule, per server address: the frame read for the recv_multipart the dispatcher awaits
    broker_socket,    \* relay: the frames waiting on the broker's ROUTER socket
    broker,           \* relay: the mediate loop
    module_socket,    \* relay client, per module: the frames waiting on its DEALER socket
    mod,              \* relay client, per module: the transmit / receive / flush_queue call
    shutdown_signal,  \* BaseModule.start: the asyncio.Event
    signals,          \* BaseModule.start: the signals delivered to the process
    entry,            \* BaseModule.start: where __entrypoint is
    funcs,            \* BaseModule.start: the tasks made from *funcs
    sockets,          \* BaseModule.start: the sockets of self.context that are not closed
    inbox,            \* service loop: the requests waiting on the server socket of the service
    service,          \* service loop: where service_loop is, the request it read, its locals
    outbox,           \* service loop: what server_transmit has sent since the request was read
    all_tasks,        \* robot interface: the tasks made from backdriving(sender, resp_id)
    backdriving_task  \* robot interface: self.backdriving_task (0 is None)

baseVars == <<now, pending, task>>
dptVars == <<client_hc_sockets, interrupted_sockets, reg, hl, caller,
             server_msg_queue, srv, app, last>>
queueVars == <<arrived, delivered, flushed, cancelled, received>>
relayVars == <<broker_socket, broker, module_socket, mod>>
startVars == <<shutdown_signal, signals, entry, funcs, sockets>>
svcVars == <<inbox, service, outbox, all_tasks, backdriving_task>>
extVars == <<queueVars, relayVars, startVars, svcVars>>
vars == <<variant, client_sockets, server_socket, baseVars, dptVars, extVars>>

(***************************************************************************)
(* Bounds of the model.                                                    *)
(***************************************************************************)
MaxTime == 3          \* the clock stops here

Addresses == {"op_data", "eva"}       \* peer addresses a caller may name
Listening == {"op_data"}              \* the addresses where a server process runs
Tasks == {"t1", "t2"}                 \* concurrent caller tasks (request handlers)
NoTimeout == -1                       \* timeout=None: poll waits indefinitely
Timeouts == {NoTimeout, 2}            \* the timeout arguments callers pass
NoId == -1                            \* req_id=None

(***************************************************************************)
(* Python values, JSON text and bytes.                                     *)
(*   a Python value is [str |-> s], [int |-> n], [list |-> <<..>>] or      *)
(*   [tuple |-> <<..>>]; JSON text is [jstr |-> s], [jnum |-> n] or        *)
(*   [jarr |-> <<..>>]; bytes are [json |-> text] (the ASCII encoding of   *)
(*   JSON text), [lit |-> s] (ASCII text that is not JSON) or [bin |-> s]  *)
(*   (bytes that are not ASCII).                                           *)
(***************************************************************************)
IsStr(v) == "str" \in DOMAIN v
IsInt(v) == "int" \in DOMAIN v
IsList(v) == "list" \in DOMAIN v
IsTuple(v) == "tuple" \in DOMAIN v

RECURSIVE dumps(_)
\* json.dumps: lists and tuples both become JSON arrays
dumps(v) ==
    IF IsStr(v) THEN [jstr |-> v.str]
    ELSE IF IsInt(v) THEN [jnum |-> v.int]
    ELSE IF IsList(v) THEN [jarr |-> [i \in DOMAIN v.list |-> dumps(v.list[i])]]
    ELSE [jarr |-> [i \in DOMAIN v.tuple |-> dumps(v.tuple[i])]]

RECURSIVE loads(_)
\* json.loads: a JSON array becomes a list
loads(j) ==
    IF "jstr" \in DOMAIN j THEN [str |-> j.jstr]
    ELSE IF "jnum" \in DOMAIN j THEN [int |-> j.jnum]
    ELSE [list |-> [i \in DOMAIN j.jarr |-> loads(j.jarr[i])]]

\* str.encode('ascii') of JSON text (json.dumps escapes every non-ASCII character)
encode(text) == [json |-> text]

\* bytes.decode('ascii') followed by json.loads succeeds exactly on these bytes
Decodable(bytes) == "json" \in DOMAIN bytes
decode(bytes) == bytes.json

(***************************************************************************)
(* The payloads of the model: a request as the callers build it (a tuple)  *)
(* and one built from lists only; the reply an application builds (a       *)
(* tuple, op_data.py).                                                     *)
(***************************************************************************)
Payloads ==
    { [tuple |-> <<[str |-> "NEW_TP"]>>],
      [list |-> <<[str |-> "GET_TP"], [list |-> <<[int |-> 1]>>]>>] }

ReplyPayloads ==
    { [tuple |-> <<[str |-> "NEW_TP"], [int |-> 1]>>] }

(***************************************************************************)
(* Request ids: abs(hash(time.time()) + hash(msg_json)) as 8 bytes.        *)
(* hash is modelled as injective on the values of the model, and the two   *)
(* summands as not cancelling each other: two ids are equal exactly when   *)
(* the clock reading and the JSON text are equal.                          *)
(***************************************************************************)
StrCode(s) ==
    CASE s = "NEW_TP" -> 1
      [] s = "GET_TP" -> 2
      [] s = "UNKNOWN_REQUEST" -> 3
      [] OTHER -> 4

RECURSIVE hash_str(_)
hash_str(j) ==
    IF "jstr" \in DOMAIN j THEN StrCode(j.jstr)
    ELSE IF "jnum" \in DOMAIN j THEN 5 + j.jnum
    ELSE IF Len(j.jarr) = 0 THEN 7
    ELSE 8 * hash_str(j.jarr[1]) + Len(j.jarr)
MaxStrHash == 8 * (8 * 8 + 2) + 2
hash_time(t) == t * (MaxStrHash + 1)
Abs(x) == IF x < 0 THEN -x ELSE x
\* base_module.py:158; the sum is below 2^63, so to_bytes(8) keeps it whole
MakeReqId(t, msg_json) == Abs(hash_time(t) + hash_str(msg_json))

(***************************************************************************)
(* Sockets and frames.                                                     *)
(*   a frame on a client socket is [resp_id, msg_bytes, sent]; a frame on  *)
(*   a server socket is [sender, req_id, msg_bytes, sent]. "sent" is not   *)
(*   on the wire: it remembers the Python value the sender passed, so that *)
(*   what a receiver returns can be compared with it.                      *)
(***************************************************************************)
name == "ui"                          \* self.name, the DEALER sockets' identity
NewSocket == [rx |-> <<>>]
Registered(a) == a \in DOMAIN client_sockets
NoResult == [none |-> TRUE]

IdleTask == [pc |-> "idle", address |-> "op_data",
             req_id |-> NoId, want |-> NoId, timeout |-> NoTimeout,
             started |-> 0, poll_started |-> 0, resp_id |-> NoId,
             result |-> NoResult, sent |-> NoResult, raised |-> "none"]

\* "again" is not in the code: whether the address was registered already
\* when the call began
IdleReg == [pc |-> "idle", address |-> "op_data", waited |-> 0, rx |-> <<>>,
            result |-> "none", again |-> FALSE]
\* "run" is not in the code: it remembers how the latest probes of each
\* address ended ("none": never probed, "alive": answered, "lost": one
\* probe unanswered, "lost_again": two or more in a row unanswered)
IdleLoop == [pc |-> "sleep", idx |-> 0, size |-> 0, waited |-> 0,
             run |-> [a \in Addresses |-> "none"]]
IdleCaller == [pc |-> "idle", address |-> "op_data", timeout |-> NoTimeout,
               waited |-> 0, result |-> NoResult, raised |-> "none"]
\* the record of a dispatcher step (not in the code): the frame it read,
\* the frames it sent, the items it put on the queue, the senders whose
\* confirm_connection the dispatcher had answered before, and, for the step
\* that starts the loop, the frames flush_server_socket read and dropped
NoDispatch == [frame |-> <<>>, sent |-> <<>>, put |-> <<>>, seen |-> {}, confirmed |-> {},
               dropped |-> <<>>]

\* the DptModule part of the state while it is not in use
DptIdle ==
    /\ client_hc_sockets = <<>>
    /\ interrupted_sockets = <<>>
    /\ reg = IdleReg
    /\ hl = IdleLoop
    /\ caller = IdleCaller
    /\ server_msg_queue = [a \in Addresses |-> <<>>]
    /\ srv = [a \in Addresses |-> "stopped"]
    /\ app = [a \in Addresses |-> <<>>]
    /\ last = [a \in Addresses |-> NoDispatch]

\* the state of the further scenarios while they are not in use, which is
\* also their state after construction: a DptModule server whose frames are
\* counted, the relay with its clients, and BaseModule.start
Modules == {"ui", "op_data"}          \* the relay clients that are running
NoSender == "none"                    \* from_sender=None
NoExpected == {}                      \* expected_msg=None
\* "timed" is FALSE for timeout=None; "timeout" is in thousandths of a
\* millisecond, "elapsed" (since t0) and "polled" (since the poll began) in
\* milliseconds. "less" says that the timeout is below the number in
\* "timeout" by less than one thousandth: time.perf_counter() has moved on
\* between t0 and t1, so a delta_t that was subtracted was more than the
\* whole milliseconds in "elapsed". "after", "dropped" and "skipped" are not
\* in the code: how far the module is in the sequence flush_queue, transmit,
\* receive ("flushed", "transmitted", "received"), how many frames that
\* flush_queue call read, and how many frames the receive call read and
\* passed over with continue. After a call has ended the record keeps its
\* from_sender and expected_msg arguments.
IdleModule == [pc |-> "idle", from_sender |-> NoSender, expected_msg |-> NoExpected,
               raw_bytes |-> FALSE, timed |-> FALSE, timeout |-> 0, less |-> FALSE,
               elapsed |-> 0, polled |-> 0,
               result |-> NoResult, raised |-> "none",
               after |-> "none", dropped |-> 0, skipped |-> 0]
\* "forwarded" and "lost" are not in the code: the frame the last pass of
\* the loop read with what it sent, and whether an earlier frame went to an
\* identity that is not connected
IdleBroker == [pc |-> "running", forwarded |-> <<>>, lost |-> FALSE]
Funcs == {"f1", "f2"}                 \* the awaitables passed to start
Signals == {"SIGINT", "SIGTERM"}
\* "tasks" is the future asyncio.gather returns; "hung" is not in the code:
\* the tasks that were cancelled while they waited for a peer
IdleEntry == [pc |-> "new", tasks |-> "none", raised |-> "none", hung |-> {}]

QueueIdle ==
    /\ arrived = [a \in Addresses |-> 0]
    /\ delivered = [a \in Addresses |-> <<>>]
    /\ flushed = [a \in Addresses |-> "none"]
    /\ cancelled = [a \in Addresses |-> "none"]
    /\ received = [a \in Addresses |-> <<>>]

RelayIdle ==
    /\ broker_socket = <<>>
    /\ broker = IdleBroker
    /\ module_socket = [m \in Modules |-> <<>>]
    /\ mod = [m \in Modules |-> IdleModule]

\* base_module.py:71-74: the ROUTER socket is made and bound; no option is
\* set on it, so it has the LINGER value of the library
DefaultLinger == -1                   \* ZMQ_LINGER when it is not set: no limit
BoundSocket == [name |-> "server_socket", linger |-> DefaultLinger]

StartIdle ==
    /\ shutdown_signal = FALSE
    /\ signals = {}
    /\ entry = IdleEntry
    /\ funcs = [f \in Funcs |-> "new"]
    /\ sockets = {BoundSocket}

\* the service loops (op_data.py, eva/eva.py): what the loop holds before
\* the first request
MaxWaiting == 1                       \* requests that may wait on the server socket
MaxTasks == 2                         \* task objects asyncio.create_task can hand out
TaskIds == 1..MaxTasks
NoRequest == [sender |-> "none", req_id |-> 0, msg |-> "none"]
IdleService == [pc |-> "receive", request |-> NoRequest, tp_id |-> "unbound"]
NoTask == [state |-> "none", must_cancel |-> FALSE, sender |-> "none", resp_id |-> 0]

SvcIdle ==
    /\ inbox = <<>>
    /\ service = IdleService
    /\ outbox = <<>>
    /\ all_tasks = [i \in TaskIds |-> NoTask]
    /\ backdriving_task = 0

ExtIdle == QueueIdle /\ RelayIdle /\ StartIdle /\ SvcIdle

InitBase ==
    /\ variant = "base"
    /\ now = 0
    /\ client_sockets = <<>>
    /\ server_socket = [a \in Addresses |-> <<>>]
    /\ pending = [a \in Addresses |-> {}]
    /\ task = [t \in Tasks |-> IdleTask]
    /\ DptIdle
    /\ ExtIdle

(***************************************************************************)
(* BaseModule.register_connection: a new DEALER socket replaces whatever   *)
(* the address was mapped to; there is no handshake and no failure.        *)
(* The callers register their peers when the module is set up, before any  *)
(* request handler runs (views.py:20, eva.py:40).                          *)
(***************************************************************************)
BaseModule_register_connection(a) ==
    /\ variant = "base"
    /\ \A t \in Tasks : task[t].pc = "idle"
    /\ client_sockets' = (a :> NewSocket) @@ client_sockets
    /\ UNCHANGED <<variant, extVars, now, server_socket, pending, task, dptVars>>

\* the call ends with an exception (its timers end with it)
Raise(t, a, exc) ==
    task' = [task EXCEPT ![t] = [@ EXCEPT !.pc = "raised", !.address = a,
                                          !.raised = exc,
                                          !.started = 0, !.poll_started = 0]]

(***************************************************************************)
(* BaseModule.client_transmit(address, message): encode, look the socket   *)
(* up, mint the request id, send [req_id, msg_bytes] without blocking (the *)
(* pipe of a connected DEALER socket takes the frame; the few frames of    *)
(* the model stay far below its high-water mark). The peer's ROUTER socket *)
(* prepends the sender's identity.                                         *)
(***************************************************************************)
BaseModule_client_transmit(t, a, m) ==
    /\ variant = "base"
    /\ task[t].pc = "idle"
    /\ LET msg_json == dumps(m)
           msg_bytes == encode(msg_json)
           req_id == MakeReqId(now, msg_json)
       IN IF ~Registered(a)
          THEN /\ Raise(t, a, "BaseModuleException")
               /\ UNCHANGED server_socket
          ELSE /\ server_socket' = [server_socket EXCEPT ![a] =
                     Append(@, [sender |-> name, req_id |-> req_id,
                                msg_bytes |-> msg_bytes, sent |-> m])]
               /\ task' = [task EXCEPT ![t] = [@ EXCEPT
                     !.pc = "transmitted", !.address = a, !.req_id = req_id]]
    /\ UNCHANGED <<variant, extVars, now, client_sockets, pending, dptVars>>

(***************************************************************************)
(* BaseModule.client_receive(address, req_id, timeout).                    *)
(***************************************************************************)
\* line 192 if every frame ended the loop
Accepts_any(resp_id, req_id) == TRUE

\* base_module.py:192: the frame ends the loop
Accepts(resp_id, req_id) == resp_id = req_id \/ req_id = NoId

\* the call itself: the registration check, then the first poll begins
BaseModule_client_receive(t, a, req_id, timeout) ==
    /\ variant = "base"
    /\ \/ task[t].pc = "idle" /\ req_id = NoId
       \/ task[t].pc = "transmitted" /\ a = task[t].address
    /\ IF ~Registered(a)
       THEN Raise(t, a, "BaseModuleException")
       ELSE task' = [task EXCEPT ![t] = [@ EXCEPT
                !.pc = "poll", !.address = a, !.want = req_id,
                !.timeout = timeout, !.started = now, !.poll_started = now]]
    /\ UNCHANGED <<variant, extVars, now, client_sockets, server_socket, pending, dptVars>>

\* the deadline of the poll the task is in
PollDeadline(tk) == tk.poll_started + tk.timeout

\* sock.poll(timeout) returns POLLIN: a frame is queued on the socket
client_receive_pollin(t) ==
    /\ variant = "base"
    /\ task[t].pc = "poll"
    /\ Registered(task[t].address)
    /\ client_sockets[task[t].address].rx # <<>>
    /\ task' = [task EXCEPT ![t].pc = "recv"]
    /\ UNCHANGED <<variant, extVars, now, client_sockets, server_socket, pending, dptVars>>

\* sock.poll(timeout) returns 0: TimeoutException(address, req_id)
client_receive_timeout(t) ==
    /\ variant = "base"
    /\ task[t].pc = "poll"
    /\ task[t].timeout # NoTimeout
    /\ now >= PollDeadline(task[t])
    /\ client_sockets[task[t].address].rx = <<>>
    /\ Raise(t, task[t].address, "TimeoutException")
    /\ UNCHANGED <<variant, extVars, now, client_sockets, server_socket, pending, dptVars>>

\* sock.recv_multipart(): takes the first frame (waits while there is none);
\* an accepted frame is decoded and returned, any other frame is dropped
\* and the loop polls again with the full timeout
client_receive_recv(t) ==
    /\ variant = "base"
    /\ task[t].pc = "recv"
    /\ LET a == task[t].address
           sock == client_sockets[a]
       IN /\ sock.rx # <<>>
          /\ LET frame == Head(sock.rx)
             IN /\ client_sockets' = [client_sockets EXCEPT ![a].rx = Tail(@)]
                /\ IF Accepts(frame.resp_id, task[t].want)
                   THEN IF Decodable(frame.msg_bytes)
                        THEN task' = [task EXCEPT ![t] = [@ EXCEPT
                                 !.pc = "returned",
                                 !.started = 0, !.poll_started = 0,
                                 !.resp_id = frame.resp_id,
                                 !.result = loads(decode(frame.msg_bytes)),
                                 !.sent = frame.sent]]
                        ELSE Raise(t, a, "JSONDecodeError")
                   ELSE task' = [task EXCEPT ![t] = [@ EXCEPT
                            !.pc = "poll", !.poll_started = now]]
    /\ UNCHANGED <<variant, extVars, now, server_socket, pending, dptVars>>

(***************************************************************************)
(* The peer at an address: a BaseModule whose application takes requests   *)
(* with server_receive and answers them with server_transmit, in any       *)
(* order (several server processes may stand behind one address).          *)
(***************************************************************************)
BaseModule_server_receive(a) ==
    /\ variant = "base"
    /\ a \in Listening
    /\ server_socket[a] # <<>>
    /\ LET frame == Head(server_socket[a])
       IN /\ Decodable(frame.msg_bytes)
          /\ pending' = [pending EXCEPT ![a] = @ \cup
                 {[sender |-> frame.sender, req_id |-> frame.req_id,
                   msg |-> loads(decode(frame.msg_bytes)), sent |-> frame.sent]}]
    /\ server_socket' = [server_socket EXCEPT ![a] = Tail(@)]
    /\ UNCHANGED <<variant, extVars, now, client_sockets, task, dptVars>>

\* server_transmit(address, resp_id, message): the ROUTER socket routes the
\* frame to the connected socket with that identity
BaseModule_server_transmit(a, req, r) ==
    /\ variant = "base"
    /\ req \in pending[a]
    /\ pending' = [pending EXCEPT ![a] = @ \ {req}]
    /\ LET msg_bytes == encode(dumps(r))
           frame == [resp_id |-> req.req_id, msg_bytes |-> msg_bytes, sent |-> r]
       IN client_sockets' = [client_sockets EXCEPT ![a].rx = Append(@, frame)]
    /\ UNCHANGED <<variant, extVars, now, server_socket, task, dptVars>>

(***************************************************************************)
(* Time. A poll whose deadline has come returns before the clock moves on, *)
(* and so does a poll or a recv_multipart with a frame queued.             *)
(***************************************************************************)
PollDue(t) ==
    /\ task[t].pc = "poll"
    /\ task[t].timeout # NoTimeout
    /\ now >= PollDeadline(task[t])

\* a poll or a recv_multipart that finds a frame queued returns at once
FrameReady(t) ==
    /\ task[t].pc \in {"poll", "recv"}
    /\ client_sockets[task[t].address].rx # <<>>

Tick ==
    /\ variant = "base"
    /\ now < MaxTime
    /\ \A t \in Tasks : ~PollDue(t) /\ ~FrameReady(t)
    /\ now' = now + 1
    /\ UNCHANGED <<variant, extVars, client_sockets, server_socket, pending, task, dptVars>>

NextBase ==
    \/ \E a \in Addresses : BaseModule_register_connection(a)
    \/ \E t \in Tasks, a \in Addresses, m \in Payloads :
          BaseModule_client_transmit(t, a, m)
    \/ \E t \in Tasks, a \in Addresses, timeout \in Timeouts :
          \E req_id \in {task[t].req_id, NoId} :
             BaseModule_client_receive(t, a, req_id, timeout)
    \/ \E t \in Tasks : client_receive_pollin(t)
    \/ \E t \in Tasks : client_receive_timeout(t)
    \/ \E t \in Tasks : client_receive_recv(t)
    \/ \E a \in Addresses : BaseModule_server_receive(a)
    \/ \E a \in Addresses : \E req \in pending[a], r \in ReplyPayloads :
          BaseModule_server_transmit(a, req, r)
    \/ Tick

SpecBase == InitBase /\ [][NextBase]_vars

(***************************************************************************)
(*                              DptModule                                  *)
(*                                                                         *)
(* variant "dptc": the endpoint "ui" registers with the DptModule servers  *)
(*   at Addresses and runs its health monitor;                             *)
(* variant "dptm": the endpoint "ui" registers with them and exchanges     *)
(*   messages with their applications (client_transmit, client_receive);   *)
(* variant "dpts": the DptModule server at one address, reading whatever   *)
(*   frames remote senders put on its bound socket;                        *)
(* variant "dptq": the same server, its application frames numbered in the *)
(*   order they reach the socket, with the application draining the queue. *)
(* All four run the same server_loop.                                      *)
(***************************************************************************)
IsDpt == variant \in {"dptc", "dptm", "dpts", "dptq"}
IsDptClient == variant \in {"dptc", "dptm"}

\* the control-plane vocabulary (dpt_module.py:106, 112, 190, 221-226)
confirm_connection == [lit |-> "confirm_connection"]
connection_confirmed == [lit |-> "connection_confirmed"]
check_connection == [lit |-> "check_connection"]
connection_alive == [lit |-> "connection_alive"]

hc_name == "ui_hc"                    \* self.name + "_hc"
RegPollTimeout_slow == 10 * 100
RegPollTimeout == 100                 \* ms, new_socket.poll(timeout=100)
ProbeTimeout == 100                   \* ms, hc_socket.poll(timeout=100)
DptTimeouts == {NoTimeout, 100}       \* the timeout arguments callers pass
TickMs == 50                          \* the clock's step
MaxQueue == 1                         \* frames one pipe holds (its high-water mark)
MaxOutstanding == 2                   \* frames senders leave unhandled at one server

DptPayloads == { [tuple |-> <<[str |-> "GOTO_WP"], [int |-> 1]>>] }

\* a frame as the ROUTER socket hands it over: the sender's identity, then
\* the parts the sender gave to send / send_multipart
DptFrame(sender, msg_bytes) == [sender |-> sender, parts |-> <<msg_bytes>>]

HcAddresses == {client_hc_sockets[i].address : i \in DOMAIN client_hc_sockets}
HasHc(a) == a \in HcAddresses
HcIndex(a) == CHOOSE i \in DOMAIN client_hc_sockets : client_hc_sockets[i].address = a
InList(a, list) == \E i \in DOMAIN list : list[i] = a

\* frames of one sending socket still waiting at the server at a
Queued(a, sender) ==
    Cardinality({i \in DOMAIN server_socket[a] : server_socket[a][i].sender = sender})
PipeFull(a, sender) == Queued(a, sender) >= MaxQueue

\* frames at the server at a that its application has not taken yet
Outstanding(a) == Len(server_socket[a]) + Len(server_msg_queue[a])

\* the record of a dispatcher step (kept for the server under study)
Record(a, frame, sent, put) ==
    last' = IF variant = "dpts"
            THEN [last EXCEPT ![a] =
                    [frame |-> <<frame>>, sent |-> sent, put |-> put,
                     dropped |-> <<>>,
                     seen |-> @.confirmed,
                     confirmed |-> IF frame.parts = <<confirm_connection>>
                                   THEN @.confirmed \cup {frame.sender}
                                   ELSE @.confirmed]]
            ELSE last

(***************************************************************************)
(* The ROUTER socket of the server at a sends [to, msg_bytes]: the frame   *)
(* goes to the connected socket with identity "to". The socket of a        *)
(* registration in progress and the registered data socket carry the same  *)
(* identity (self.name): either may get the frame. A frame for an identity *)
(* that is not connected, or for a full pipe, is dropped.                  *)
(***************************************************************************)
ToReg(a, to) == to = name /\ reg.pc = "poll" /\ reg.address = a
ToData(a, to) == to = name /\ Registered(a)
ToHc(a, to) == to = hc_name /\ HasHc(a)

Deliver(a, to, msg_bytes) ==
    \/ /\ ToReg(a, to)
       /\ reg' = [reg EXCEPT !.rx = IF Len(@) < MaxQueue THEN Append(@, msg_bytes) ELSE @]
       /\ UNCHANGED <<client_sockets, client_hc_sockets>>
    \/ /\ ToData(a, to)
       /\ client_sockets' = [client_sockets EXCEPT ![a].rx =
              IF Len(@) < MaxQueue THEN Append(@, msg_bytes) ELSE @]
       /\ UNCHANGED <<reg, client_hc_sockets>>
    \/ /\ ToHc(a, to)
       /\ client_hc_sockets' = [client_hc_sockets EXCEPT ![HcIndex(a)].rx =
              IF Len(@) < MaxQueue THEN Append(@, msg_bytes) ELSE @]
       /\ UNCHANGED <<reg, client_sockets>>
    \/ /\ ~ToReg(a, to) /\ ~ToData(a, to) /\ ~ToHc(a, to)
       /\ UNCHANGED <<reg, client_sockets, client_hc_sockets>>

(***************************************************************************)
(* DptModule.register_connection(address)                                  *)
(***************************************************************************)
\* lines 102-108: a new DEALER socket, connect, send confirm_connection
\* (the new socket's own pipe takes the frame), then poll(timeout=100).
\* The application of variant "dptc" registers a peer until it succeeds and
\* not again (comm1.py:16); that of variant "dptm" also registers a peer it
\* has registered before.
DptModule_register_connection(a) ==
    /\ IsDptClient
    /\ variant = "dptc" => ~Registered(a)
    /\ reg.pc = "idle"
    /\ ~PipeFull(a, name)
    /\ server_socket' = [server_socket EXCEPT ![a] =
           Append(@, DptFrame(name, confirm_connection))]
    /\ reg' = [pc |-> "poll", address |-> a, waited |-> 0, rx |-> <<>>,
               result |-> "none", again |-> Registered(a)]
    /\ UNCHANGED <<variant, extVars, client_sockets, baseVars, client_hc_sockets,
                   interrupted_sockets, hl, caller, server_msg_queue, srv, app, last>>

\* new_socket.close() with LINGER 0: a confirm_connection frame that has not
\* reached the server yet is discarded; one that has reached it stays there
Closed(a, queue) ==
    {queue} \cup
    {SubSeq(queue, 1, i - 1) \o SubSeq(queue, i + 1, Len(queue)) :
        i \in {j \in DOMAIN queue : queue[j] = DptFrame(name, confirm_connection)}}

\* the failure path if the socket were stored before the handshake is over
register_connection_timeout_keeps ==
    /\ IsDptClient
    /\ reg.pc = "poll"
    /\ reg.rx = <<>>
    /\ reg.waited >= RegPollTimeout
    /\ reg' = [reg EXCEPT !.pc = "idle", !.result = "false"]
    /\ client_sockets' = (reg.address :> NewSocket) @@ client_sockets
    /\ UNCHANGED <<variant, extVars, server_socket, baseVars, client_hc_sockets,
                   interrupted_sockets, hl, caller, server_msg_queue, srv, app, last>>

\* lines 109-111: the poll ends without a frame
register_connection_timeout ==
    /\ IsDptClient
    /\ reg.pc = "poll"
    /\ reg.rx = <<>>
    /\ reg.waited >= RegPollTimeout
    /\ reg' = [reg EXCEPT !.pc = "idle", !.result = "false"]
    /\ \E q \in Closed(reg.address, server_socket[reg.address]) :
          server_socket' = [server_socket EXCEPT ![reg.address] = q]
    /\ UNCHANGED <<variant, extVars, client_sockets, baseVars, client_hc_sockets,
                   interrupted_sockets, hl, caller, server_msg_queue, srv, app, last>>

\* line 123 if the map were a list of pairs
WithHc_appends(a) == Append(client_hc_sockets, [address |-> a, rx |-> <<>>])

\* line 123, the hc socket of a successful registration: a new key goes to
\* the end of the dict, a known key keeps its place and gets the new socket
WithHc(a) ==
    IF HasHc(a)
    THEN [client_hc_sockets EXCEPT ![HcIndex(a)] = [address |-> a, rx |-> <<>>]]
    ELSE Append(client_hc_sockets, [address |-> a, rx |-> <<>>])

\* lines 112-125: the poll returned POLLIN and the frame is read
register_connection_recv ==
    /\ IsDptClient
    /\ reg.pc = "poll"
    /\ reg.rx # <<>>
    /\ IF Head(reg.rx) # connection_confirmed
       THEN /\ reg' = [reg EXCEPT !.pc = "idle", !.result = "false",
                                  !.waited = 0, !.rx = <<>>]
            /\ UNCHANGED <<client_sockets, client_hc_sockets>>
       ELSE /\ reg' = [reg EXCEPT !.pc = "idle", !.result = "true",
                                  !.waited = 0, !.rx = <<>>]
            /\ client_sockets' = (reg.address :> [rx |-> Tail(reg.rx)]) @@ client_sockets
            /\ client_hc_sockets' = WithHc(reg.address)
    /\ UNCHANGED <<variant, extVars, server_socket, baseVars,
                   interrupted_sockets, hl, caller, server_msg_queue, srv, app, last>>

(***************************************************************************)
(* DptModule.client_loop: the health monitor                               *)
(***************************************************************************)
\* list.remove(x): the first occurrence goes
RECURSIVE Remove(_, _)
Remove(list, a) ==
    IF list = <<>> THEN <<>>
    ELSE IF Head(list) = a THEN Tail(list)
    ELSE <<Head(list)>> \o Remove(Tail(list), a)

\* lines 194-196 without the remove
Reestablished_forgets(list, a) == list

\* lines 194-196: the probe was answered
Reestablished(list, a) == IF InList(a, list) THEN Remove(list, a) ELSE list

\* lines 200-202 without the membership test
Lost_unchecked(list, a) == Append(list, a)

\* lines 200-202: the probe was not answered
Lost(list, a) == IF ~InList(a, list) THEN Append(list, a) ELSE list

\* The for statement asks the dict iterator for item i (it raises
\* RuntimeError when the dict changed size since the loop began); then line
\* 190 sends check_connection with DONTWAIT (zmq.Again on a full pipe) and
\* line 191 starts the poll. After the last item the loop sleeps again.
NextItem(i, size, run) ==
    IF Len(client_hc_sockets) # size
    THEN /\ hl' = [IdleLoop EXCEPT !.pc = "raised", !.run = run]
         /\ UNCHANGED server_socket
    ELSE IF i > size
    THEN /\ hl' = [IdleLoop EXCEPT !.run = run]
         /\ UNCHANGED server_socket
    ELSE LET a == client_hc_sockets[i].address
         IN IF PipeFull(a, hc_name)
            THEN /\ hl' = [IdleLoop EXCEPT !.pc = "raised", !.run = run]
                 /\ UNCHANGED server_socket
            ELSE /\ hl' = [pc |-> "poll", idx |-> i, size |-> size, waited |-> 0,
                           run |-> run]
                 /\ server_socket' = [server_socket EXCEPT ![a] =
                        Append(@, DptFrame(hc_name, check_connection))]

\* line 188 returns: asyncio.sleep(client_check_connections_interval) is over
client_loop_wake ==
    /\ variant = "dptc"
    /\ hl.pc = "sleep"
    /\ client_hc_sockets # <<>>
    /\ NextItem(1, Len(client_hc_sockets), hl.run)
    /\ UNCHANGED <<variant, extVars, client_sockets, baseVars, client_hc_sockets,
                   interrupted_sockets, reg, caller, server_msg_queue, srv, app, last>>

\* lines 192-197: POLLIN, the reply is read from the heartbeat socket
client_loop_alive ==
    /\ variant = "dptc"
    /\ hl.pc = "poll"
    /\ hl.idx \in DOMAIN client_hc_sockets
    /\ client_hc_sockets[hl.idx].rx # <<>>
    /\ client_hc_sockets' = [client_hc_sockets EXCEPT ![hl.idx].rx = Tail(@)]
    /\ interrupted_sockets' =
           Reestablished(interrupted_sockets, client_hc_sockets[hl.idx].address)
    /\ NextItem(hl.idx + 1, hl.size,
                [hl.run EXCEPT ![client_hc_sockets[hl.idx].address] = "alive"])
    /\ UNCHANGED <<variant, extVars, client_sockets, baseVars, reg, caller,
                   server_msg_queue, srv, app, last>>

\* lines 199-203: the poll ended without a frame
client_loop_timeout ==
    /\ variant = "dptc"
    /\ hl.pc = "poll"
    /\ hl.idx \in DOMAIN client_hc_sockets
    /\ client_hc_sockets[hl.idx].rx = <<>>
    /\ hl.waited >= ProbeTimeout
    /\ interrupted_sockets' =
           Lost(interrupted_sockets, client_hc_sockets[hl.idx].address)
    /\ NextItem(hl.idx + 1, hl.size,
                [hl.run EXCEPT ![client_hc_sockets[hl.idx].address] =
                    IF @ \in {"lost", "lost_again"} THEN "lost_again" ELSE "lost"])
    /\ UNCHANGED <<variant, extVars, client_sockets, baseVars, client_hc_sockets, reg, caller,
                   server_msg_queue, srv, app, last>>

(***************************************************************************)
(* DptModule.client_transmit and client_receive                            *)
(***************************************************************************)
CallerRaise(a, exc) ==
    caller' = [IdleCaller EXCEPT !.address = a, !.raised = exc]

\* client_transmit if it connected to an unknown address on demand
DptModule_client_transmit_connects(a, m) ==
    /\ variant = "dptm"
    /\ caller.pc = "idle"
    /\ ~PipeFull(a, name)
    /\ Outstanding(a) < MaxOutstanding
    /\ client_sockets' = IF Registered(a) THEN client_sockets
                         ELSE (a :> NewSocket) @@ client_sockets
    /\ server_socket' = [server_socket EXCEPT ![a] =
           Append(@, DptFrame(name, encode(dumps(m))))]
    /\ caller' = [IdleCaller EXCEPT !.address = a]
    /\ UNCHANGED <<variant, extVars, baseVars, client_hc_sockets,
                   interrupted_sockets, reg, hl, server_msg_queue, srv, app, last>>

DptModule_client_transmit(a, m) ==
    /\ variant = "dptm"
    /\ caller.pc = "idle"
    /\ LET msg_bytes == encode(dumps(m))
       IN IF ~Registered(a)
          THEN /\ CallerRaise(a, "BaseModuleException")
               /\ UNCHANGED server_socket
          ELSE IF PipeFull(a, name)
          THEN /\ CallerRaise(a, "Again")
               /\ UNCHANGED server_socket
          ELSE /\ Outstanding(a) < MaxOutstanding
               /\ server_socket' = [server_socket EXCEPT ![a] =
                      Append(@, DptFrame(name, msg_bytes))]
               /\ caller' = [IdleCaller EXCEPT !.address = a]
    /\ UNCHANGED <<variant, extVars, client_sockets, baseVars, client_hc_sockets,
                   interrupted_sockets, reg, hl, server_msg_queue, srv, app, last>>

\* lines 171-175: the registration check, then the poll begins
DptModule_client_receive(a, timeout) ==
    /\ variant = "dptm"
    /\ caller.pc = "idle"
    /\ IF ~Registered(a)
       THEN CallerRaise(a, "BaseModuleException")
       ELSE caller' = [IdleCaller EXCEPT !.pc = "poll", !.address = a,
                                         !.timeout = timeout]
    /\ UNCHANGED <<variant, extVars, client_sockets, server_socket, baseVars, client_hc_sockets,
                   interrupted_sockets, reg, hl, server_msg_queue, srv, app, last>>

\* lines 176-178: the poll ended without a frame
client_receive_expired ==
    /\ variant = "dptm"
    /\ caller.pc = "poll"
    /\ caller.timeout # NoTimeout
    /\ caller.waited >= caller.timeout
    /\ client_sockets[caller.address].rx = <<>>
    /\ CallerRaise(caller.address, "BaseModuleException")
    /\ UNCHANGED <<variant, extVars, client_sockets, server_socket, baseVars, client_hc_sockets,
                   interrupted_sockets, reg, hl, server_msg_queue, srv, app, last>>

\* lines 180-184: the frame is read, decoded and returned
client_receive_return ==
    /\ variant = "dptm"
    /\ caller.pc = "poll"
    /\ client_sockets[caller.address].rx # <<>>
    /\ LET msg_bytes == Head(client_sockets[caller.address].rx)
       IN IF Decodable(msg_bytes)
          THEN caller' = [IdleCaller EXCEPT !.address = caller.address,
                                            !.result = loads(decode(msg_bytes))]
          ELSE CallerRaise(caller.address, "JSONDecodeError")
    /\ client_sockets' = [client_sockets EXCEPT ![caller.address].rx = Tail(@)]
    /\ UNCHANGED <<variant, extVars, server_socket, baseVars, client_hc_sockets,
                   interrupted_sockets, reg, hl, server_msg_queue, srv, app, last>>

(***************************************************************************)
(* DptModule.server_loop: the dispatcher, and the server's application     *)
(***************************************************************************)
\* flush_server_socket if it returned at once
Flushed_none(queue) == queue

\* lines 263-268: recv with DONTWAIT until zmq.Again, what is read is
\* dropped; the socket is empty afterwards
Flushed(queue) == <<>>

\* line 216 (flush_server_socket, lines 263-268): every frame waiting on the
\* bound socket is read without blocking and dropped; then the loop runs
DptModule_server_loop_start(a) ==
    /\ IsDpt
    /\ variant \in {"dptm", "dpts", "dptq"} => a \in Listening
    /\ srv[a] = "stopped"
    /\ srv' = [srv EXCEPT ![a] = "running"]
    /\ server_socket' = [server_socket EXCEPT ![a] = Flushed(@)]
    /\ last' = IF variant = "dpts"
               THEN [last EXCEPT ![a] =
                       [@ EXCEPT !.frame = <<>>, !.sent = <<>>, !.put = <<>>,
                                 !.dropped = server_socket[a]]]
               ELSE last
    /\ UNCHANGED <<variant, extVars, client_sockets, baseVars, client_hc_sockets,
                   interrupted_sockets, reg, hl, caller, server_msg_queue, app>>

\* cancel() if it only marked the task and left its read on the socket
\* pending until the task runs
server_loop_cancel_marks(a) ==
    /\ IsDpt
    /\ srv[a] = "running"
    /\ cancelled[a] = "none"
    /\ srv' = [srv EXCEPT ![a] = "stopped"]
    /\ cancelled' = IF variant = "dptq" THEN [cancelled EXCEPT ![a] = "reading"]
                    ELSE cancelled
    /\ received' = [received EXCEPT ![a] = <<>>]
    /\ UNCHANGED <<variant, relayVars, startVars, svcVars, arrived, delivered, flushed,
                   client_sockets, server_socket, baseVars, client_hc_sockets,
                   interrupted_sockets, reg, hl, caller, server_msg_queue, app, last>>

\* the application cancels the dispatcher task while it waits for a frame
\* (comm2.py:24): Task.cancel() cancels the recv_multipart future the task
\* awaits, so the read is withdrawn at once; the task itself ends when the
\* event loop runs it next (variant "dptq" keeps the two moments apart).
\* When the socket's handler has completed that future already, cancel()
\* marks the task, CancelledError is thrown into it in place of the
\* future's result, and the frame that was read is gone.
server_loop_cancel(a) ==
    /\ IsDpt
    /\ srv[a] = "running"
    /\ cancelled[a] = "none"
    /\ srv' = [srv EXCEPT ![a] = "stopped"]
    /\ cancelled' = IF variant = "dptq" THEN [cancelled EXCEPT ![a] = "cancelled"]
                    ELSE cancelled
    /\ received' = [received EXCEPT ![a] = <<>>]
    /\ UNCHANGED <<variant, relayVars, startVars, svcVars, arrived, delivered, flushed,
                   client_sockets, server_socket, baseVars, client_hc_sockets,
                   interrupted_sockets, reg, hl, caller, server_msg_queue, app, last>>

\* the cancelled task is run: CancelledError is raised at its await, the
\* coroutine does not catch it and the task is done
server_loop_cancelled(a) ==
    /\ IsDpt
    /\ cancelled[a] # "none"
    /\ cancelled' = [cancelled EXCEPT ![a] = "none"]
    /\ UNCHANGED <<variant, relayVars, startVars, svcVars, received, arrived, delivered, flushed,
                   client_sockets, server_socket, baseVars, dptVars>>

\* lines 221-227 with the two replies exchanged
ControlReply_swapped(msg_bytes) ==
    IF msg_bytes = confirm_connection THEN <<connection_alive>>
    ELSE IF msg_bytes = check_connection THEN <<connection_confirmed>>
    ELSE <<>>

\* lines 221-227: the reply to a control frame, <<>> for any other frame
ControlReply(msg_bytes) ==
    IF msg_bytes = confirm_connection THEN <<connection_confirmed>>
    ELSE IF msg_bytes = check_connection THEN <<connection_alive>>
    ELSE <<>>

\* lines 219-233, one pass of the while loop over the frame read at line
\* 218. An unpacking error (line 218) or a decoding error (lines 229, 231)
\* ends the task.
Dispatch(a, frame) ==
    LET reply == ControlReply(frame.parts[1])
    IN IF Len(frame.parts) # 1
       THEN /\ srv' = [srv EXCEPT ![a] = "raised"]
            /\ Record(a, frame, <<>>, <<>>)
            /\ UNCHANGED <<server_msg_queue, reg, client_sockets,
                           client_hc_sockets>>
       ELSE IF reply # <<>>
       THEN /\ Deliver(a, frame.sender, reply[1])
            /\ Record(a, frame, <<[to |-> frame.sender,
                                     msg_bytes |-> reply[1]]>>, <<>>)
            /\ UNCHANGED <<server_msg_queue, srv>>
       ELSE IF ~Decodable(frame.parts[1])
       THEN /\ srv' = [srv EXCEPT ![a] = "raised"]
            /\ Record(a, frame, <<>>, <<>>)
            /\ UNCHANGED <<server_msg_queue, reg, client_sockets,
                           client_hc_sockets>>
       ELSE LET item == [sender |-> frame.sender,
                         msg |-> loads(decode(frame.parts[1]))]
            IN /\ server_msg_queue' = [server_msg_queue EXCEPT ![a] =
                      Append(@, item)]
               /\ Record(a, frame, <<>>, <<item>>)
               /\ UNCHANGED <<srv, reg, client_sockets, client_hc_sockets>>

\* lines 218-233: recv_multipart finds a frame on the socket (or the task
\* is run as soon as its frame is read) and the pass is made over it
DptModule_server_loop(a) ==
    /\ IsDpt
    /\ srv[a] = "running"
    /\ received[a] = <<>>
    /\ server_socket[a] # <<>>
    /\ server_socket' = [server_socket EXCEPT ![a] = Tail(@)]
    /\ Dispatch(a, Head(server_socket[a]))
    /\ UNCHANGED <<variant, extVars, baseVars, interrupted_sockets, hl, caller, app>>

\* line 218, the task suspended in recv_multipart: the handler of the
\* socket's events reads the frame that has come and completes the future
\* with it; the task waits for the event loop to run it
handle_recv(a) ==
    /\ variant = "dptq"
    /\ srv[a] = "running"
    /\ received[a] = <<>>
    /\ server_socket[a] # <<>>
    /\ received' = [received EXCEPT ![a] = <<Head(server_socket[a])>>]
    /\ server_socket' = [server_socket EXCEPT ![a] = Tail(@)]
    /\ UNCHANGED <<variant, relayVars, startVars, svcVars, arrived, delivered, flushed,
                   cancelled, client_sockets, baseVars, dptVars>>

\* lines 218-233: the event loop runs the task, recv_multipart returns the
\* frame of the future and the pass is made over it
server_loop_resume(a) ==
    /\ variant = "dptq"
    /\ srv[a] = "running"
    /\ received[a] # <<>>
    /\ received' = [received EXCEPT ![a] = <<>>]
    /\ Dispatch(a, received[a][1])
    /\ UNCHANGED <<variant, relayVars, startVars, svcVars, arrived, delivered, flushed,
                   cancelled, server_socket, baseVars, interrupted_sockets, hl,
                   caller, app>>

\* lines 250-251 if the queue handed out its newest item
DptModule_server_receive_newest(a) ==
    /\ IsDpt
    /\ app[a] = <<>>
    /\ server_msg_queue[a] # <<>>
    /\ LET n == Len(server_msg_queue[a])
       IN /\ app' = [app EXCEPT ![a] = <<server_msg_queue[a][n]>>]
          /\ server_msg_queue' = [server_msg_queue EXCEPT ![a] = SubSeq(@, 1, n - 1)]
          /\ delivered' = IF variant = "dptq"
                          THEN [delivered EXCEPT ![a] = Append(@, server_msg_queue[a][n])]
                          ELSE delivered
    /\ UNCHANGED <<variant, relayVars, startVars, svcVars, received, arrived, flushed, cancelled,
                   client_sockets, server_socket, baseVars, client_hc_sockets,
                   interrupted_sockets, reg, hl, caller, srv, last>>

\* lines 250-251: the application takes the next item off the queue
DptModule_server_receive(a) ==
    /\ IsDpt
    /\ app[a] = <<>>
    /\ server_msg_queue[a] # <<>>
    /\ app' = [app EXCEPT ![a] = <<Head(server_msg_queue[a])>>]
    /\ server_msg_queue' = [server_msg_queue EXCEPT ![a] = Tail(@)]
    /\ delivered' = IF variant = "dptq"
                    THEN [delivered EXCEPT ![a] = Append(@, Head(server_msg_queue[a]))]
                    ELSE delivered
    /\ UNCHANGED <<variant, relayVars, startVars, svcVars, received, arrived, flushed, cancelled,
                   client_sockets, server_socket, baseVars, client_hc_sockets,
                   interrupted_sockets, reg, hl, caller, srv, last>>

\* lines 253-261: qsize() returns an int and the for statement cannot
\* iterate over it: TypeError, before any get_nowait; the except clause
\* catches asyncio.QueueEmpty only
DptModule_flush_server_queue(a) ==
    /\ variant = "dptq"
    /\ a \in Listening
    /\ flushed' = [flushed EXCEPT ![a] = "TypeError"]
    /\ UNCHANGED <<variant, relayVars, startVars, svcVars, received, arrived, delivered, cancelled,
                   client_sockets, server_socket, baseVars, dptVars>>

\* lines 235-248: the application answers the sender of the item it holds
\* (comm2.py:16)
DptModule_server_transmit(a, m) ==
    /\ IsDpt
    /\ app[a] # <<>>
    /\ Deliver(a, app[a][1].sender, encode(dumps(m)))
    /\ app' = [app EXCEPT ![a] = <<>>]
    /\ UNCHANGED <<variant, extVars, server_socket, baseVars, interrupted_sockets, hl, caller,
                   server_msg_queue, srv, last>>

\* what remote senders put on the bound socket of the server under study:
\* control frames, application frames, and frames the dispatcher cannot
\* unpack or decode (a BaseModule client sends [req_id, msg_bytes])
RemoteSenders == {"ui", "ui_hc"}
RemoteParts ==
    { <<confirm_connection>>, <<check_connection>>,
      <<encode(dumps([str |-> "hi"]))>>,
      <<[lit |-> "hi"]>>,
      <<[bin |-> "ff"]>>,
      <<[bin |-> "req_id"], encode(dumps([str |-> "hi"]))>> }

\* in variant "dptq" the payload of an application frame is its number in
\* the order of arrival
MaxArrivals == 3
NumberedParts(a) ==
    { <<check_connection>>, <<encode(dumps([int |-> arrived[a] + 1]))>> }

remote_send(a, sender, parts) ==
    /\ variant \in {"dpts", "dptq"}
    /\ a \in Listening
    /\ ~PipeFull(a, sender)
    /\ Outstanding(a) < MaxOutstanding
    /\ server_socket' = [server_socket EXCEPT ![a] =
           Append(@, [sender |-> sender, parts |-> parts])]
    /\ IF variant = "dptq" /\ ControlReply(parts[1]) = <<>>
       THEN /\ arrived[a] < MaxArrivals
            /\ arrived' = [arrived EXCEPT ![a] = @ + 1]
       ELSE UNCHANGED arrived
    /\ UNCHANGED <<variant, relayVars, startVars, svcVars, received, delivered, flushed, cancelled,
                   client_sockets, baseVars, dptVars>>

(***************************************************************************)
(* Time in the DptModule variants: the polls in progress count the         *)
(* milliseconds they have waited; a poll that is due ends before the clock *)
(* moves on.                                                               *)
(***************************************************************************)
Min(x, y) == IF x <= y THEN x ELSE y

Waits ==
    (IF reg.pc = "poll" THEN {RegPollTimeout - reg.waited} ELSE {}) \cup
    (IF hl.pc = "poll" THEN {ProbeTimeout - hl.waited} ELSE {}) \cup
    (IF caller.pc = "poll" /\ caller.timeout # NoTimeout
     THEN {caller.timeout - caller.waited} ELSE {})

TickDpt ==
    /\ IsDptClient
    /\ Waits # {}
    /\ \A w \in Waits : w > 0
    /\ LET d == Min(TickMs, CHOOSE w \in Waits : \A v \in Waits : w <= v)
       IN /\ reg' = IF reg.pc = "poll" THEN [reg EXCEPT !.waited = @ + d] ELSE reg
          /\ hl' = IF hl.pc = "poll" THEN [hl EXCEPT !.waited = @ + d] ELSE hl
          /\ caller' = IF caller.pc = "poll" /\ caller.timeout # NoTimeout
                       THEN [caller EXCEPT !.waited = @ + d] ELSE caller
    /\ UNCHANGED <<variant, extVars, client_sockets, server_socket, baseVars, client_hc_sockets,
                   interrupted_sockets, server_msg_queue, srv, app, last>>

BaseIdle ==
    /\ now = 0
    /\ pending = [a \in Addresses |-> {}]
    /\ task = [t \in Tasks |-> IdleTask]

InitDptClient ==
    /\ variant = "dptc"
    /\ client_sockets = <<>>
    /\ server_socket = [a \in Addresses |-> <<>>]
    /\ BaseIdle
    /\ DptIdle
    /\ ExtIdle

InitDptMessages ==
    /\ variant = "dptm"
    /\ client_sockets = <<>>
    /\ server_socket = [a \in Addresses |-> <<>>]
    /\ BaseIdle
    /\ DptIdle
    /\ ExtIdle

InitDptServer ==
    /\ variant = "dpts"
    /\ client_sockets = <<>>
    /\ server_socket = [a \in Addresses |-> <<>>]
    /\ BaseIdle
    /\ DptIdle
    /\ ExtIdle

NextDptClient ==
    \/ \E a \in Addresses : DptModule_register_connection(a)
    \/ register_connection_timeout
    \/ register_connection_recv
    \/ client_loop_wake
    \/ client_loop_alive
    \/ client_loop_timeout
    \/ \E a \in Addresses : DptModule_server_loop_start(a)
    \/ \E a \in Addresses : server_loop_cancel(a)
    \/ \E a \in Addresses : DptModule_server_loop(a)
    \/ TickDpt

NextDptMessages ==
    \/ \E a \in Addresses : DptModule_register_connection(a)
    \/ register_connection_timeout
    \/ register_connection_recv
    \/ \E a \in Addresses, m \in DptPayloads : DptModule_client_transmit(a, m)
    \/ \E a \in Addresses, timeout \in DptTimeouts : DptModule_client_receive(a, timeout)
    \/ client_receive_expired
    \/ client_receive_return
    \/ \E a \in Addresses : DptModule_server_loop_start(a)
    \/ \E a \in Addresses : server_loop_cancel(a)
    \/ \E a \in Addresses : DptModule_server_loop(a)
    \/ \E a \in Addresses : DptModule_server_receive(a)
    \/ \E a \in Addresses, m \in DptPayloads : DptModule_server_transmit(a, m)
    \/ TickDpt

NextDptServer ==
    \/ \E a \in Addresses : DptModule_server_loop_start(a)
    \/ \E a \in Addresses : server_loop_cancel(a)
    \/ \E a \in Addresses : DptModule_server_loop(a)
    \/ \E a \in Addresses : DptModule_server_receive(a)
    \/ \E a \in Addresses, m \in DptPayloads : DptModule_server_transmit(a, m)
    \/ \E a \in Addresses, sender \in RemoteSenders, parts \in RemoteParts :
          remote_send(a, sender, parts)

InitDptQueue ==
    /\ variant = "dptq"
    /\ client_sockets = <<>>
    /\ server_socket = [a \in Addresses |-> <<>>]
    /\ BaseIdle
    /\ DptIdle
    /\ ExtIdle

NextDptQueue ==
    \/ \E a \in Addresses : DptModule_server_loop_start(a)
    \/ \E a \in Addresses : server_loop_cancel(a)
    \/ \E a \in Addresses : server_loop_cancelled(a)
    \/ \E a \in Addresses : DptModule_server_loop(a)
    \/ \E a \in Addresses : handle_recv(a)
    \/ \E a \in Addresses : server_loop_resume(a)
    \/ \E a \in Addresses : DptModule_server_receive(a)
    \/ \E a \in Addresses, m \in DptPayloads : DptModule_server_transmit(a, m)
    \/ \E a \in Addresses : DptModule_flush_server_queue(a)
    \/ \E a \in Addresses :
          \E sender \in RemoteSenders, parts \in NumberedParts(a) :
              remote_send(a, sender, parts)

SpecDptClient == InitDptClient /\ [][NextDptClient]_vars
SpecDptQueue == InitDptQueue /\ [][NextDptQueue]_vars
SpecDptMessages == InitDptMessages /\ [][NextDptMessages]_vars
SpecDptServer == InitDptServer /\ [][NextDptServer]_vars

\* the endpoints whose callers use client_transmit and client_receive
SpecClients == (InitBase \/ InitDptMessages) /\ [][NextBase \/ NextDptMessages]_vars

(***************************************************************************)
(* The relay (broker.py) and its clients (dpt_module/src/dpt_module.py).   *)
(* variant "relay": the broker, the client "ui" (views.py: flush_queue,    *)
(* transmit, receive with a sender filter and a timeout) and the service   *)
(* "op_data" (receive without arguments, then transmit to the sender it    *)
(* got, as in eva.py:60-82); "eva_interface" is addressed but not running. *)
(*   a frame on the broker's socket is [sender, address, delimiter, msg];  *)
(*   a frame on a client's socket is [sender, delimiter, msg]. "sent" and  *)
(*   "old" are not on the wire: the Python value the sender passed, and    *)
(*   whether the frame was sent before a flush_queue call of the module it *)
(*   is addressed to ("in_flight": it was on its way then, "queued": it    *)
(*   was on that module's socket and the call left it there).              *)
(***************************************************************************)
IsBytes(v) == "bytes" \in DOMAIN v
RelayClients == {"ui"}
RelayServices == {"op_data"}
Destinations == Modules \cup {"eva_interface"}
empty == [lit |-> ""]                 \* b''
RelayHwm == 2                         \* frames one pipe holds (its high-water mark)
MaxRelayFrames == 2                   \* frames the clients leave unread in the relay
MaxElapsed == 100                     \* ms, the clock of a receive call stops here
FlushLimit == 1000                    \* range(1000)
\* (Requests.GET_ALL_WP_IDS,) and a bytes object
RelayPayloads == { [tuple |-> <<[int |-> 2]>>], [bytes |-> [lit |-> "ping"]] }
\* what a service answers
RelayReplies == { [list |-> <<[int |-> 1]>>], [int |-> 11],
                  [bytes |-> [lit |-> "pong"]] }
\* the receive calls of a client: views.py:22-24 (from_sender, timeout),
\* views.py:33-36 (from_sender, expected_msg=(Requests.STOP_BACKDRIVING,),
\* timeout), and a call that does not wait (timeout=0)
RelayCalls ==
    { [from_sender |-> "op_data", expected_msg |-> NoExpected, timeout |-> 100],
      [from_sender |-> "eva_interface", expected_msg |-> {[int |-> 11]}, timeout |-> 100],
      [from_sender |-> "op_data", expected_msg |-> {[int |-> 11]}, timeout |-> 0] }

\* frames sent and not yet read by a receive or flush_queue call
InRelay == Len(broker_socket) + Len(module_socket["ui"]) + Len(module_socket["op_data"])

\* frames of one client's socket still waiting at the broker
AtBroker(m) ==
    Cardinality({i \in DOMAIN broker_socket : broker_socket[i].sender = m})

\* dpt_module.py:35-54: a bytes object goes out as it is, anything else as
\* JSON; the DEALER socket sends [address, b'', msg_bytes] with DONTWAIT
\* (zmq.Again on a full pipe) and the broker's ROUTER socket puts the
\* sender's identity in front
DptModule_transmit(m, address, message) ==
    /\ variant = "relay"
    /\ mod[m].pc = "idle"
    /\ LET msg_bytes == IF IsBytes(message) THEN message.bytes
                        ELSE encode(dumps(message))
       IN IF AtBroker(m) >= RelayHwm
          THEN /\ mod' = [mod EXCEPT ![m] = [IdleModule EXCEPT !.raised = "Again"]]
               /\ UNCHANGED broker_socket
          ELSE /\ InRelay < MaxRelayFrames
               /\ broker_socket' = Append(broker_socket,
                      [sender |-> m, address |-> address, delimiter |-> empty,
                       msg |-> msg_bytes, sent |-> message, old |-> "no"])
               /\ mod' = [mod EXCEPT ![m] =
                      IF @.after = "flushed"
                      THEN [IdleModule EXCEPT !.after = "transmitted",
                                              !.dropped = mod[m].dropped]
                      ELSE IdleModule]
    /\ UNCHANGED <<variant, client_sockets, server_socket, baseVars, dptVars,
                   queueVars, startVars, svcVars, broker, module_socket>>

\* eva.py:60-82: a service answers the sender of the request it received
service_transmit(m, message) ==
    /\ mod[m].result # NoResult
    /\ DptModule_transmit(m, mod[m].result.sender, message)

\* line 42 if the two addresses kept their places
Forward_unswapped(sender, address, msg) == <<sender, address, empty, msg>>

\* broker.py:42: the parts given to send_multipart
Forward(sender, address, msg) == <<address, sender, empty, msg>>

\* the identities connected to the broker's socket
Connected(identity) == identity \in Modules

\* a ROUTER socket with ROUTER_MANDATORY set
RouterSend_mandatory(parts) ==
    IF Connected(parts[1]) THEN "queued" ELSE "EHOSTUNREACH"

\* broker.py:22, 42: the ROUTER socket takes the first part as the identity
\* to send to; for an identity that is not connected the message is dropped
\* and send_multipart returns as usual
RouterSend(parts) ==
    IF Connected(parts[1]) THEN "queued" ELSE "dropped"

\* recv_multipart if it took the newest frame on the socket
Received_newest == Len(broker_socket)

\* broker.py:33: recv_multipart takes the oldest frame on the socket
Received == 1

\* broker.py:30-42, one pass of the loop: the decoding at lines 37-38 is for
\* the log line (the identities of the model are ASCII). A frame for a full
\* pipe is dropped by the socket.
broker_mediate ==
    /\ variant = "relay"
    /\ broker.pc = "running"
    /\ broker_socket # <<>>
    /\ LET frame == broker_socket[Received]
           parts == Forward(frame.sender, frame.address, frame.msg)
           outcome == RouterSend(parts)
           to == parts[1]
       IN /\ broker_socket' = SubSeq(broker_socket, 1, Received - 1)
                                 \o SubSeq(broker_socket, Received + 1, Len(broker_socket))
          /\ module_socket' =
                IF outcome = "queued" /\ Len(module_socket[to]) < RelayHwm
                THEN [module_socket EXCEPT ![to] = Append(@,
                        [sender |-> parts[2], delimiter |-> parts[3], msg |-> parts[4],
                         sent |-> frame.sent, old |-> frame.old,
                         by |-> frame.sender, for |-> frame.address])]
                ELSE module_socket
          /\ broker' = [pc |-> IF outcome \in {"queued", "dropped"}
                               THEN "running" ELSE "raised",
                        forwarded |-> <<[frame |-> <<frame.sender, frame.address,
                                                     frame.delimiter, frame.msg>>,
                                         sent |-> <<parts>>]>>,
                        lost |-> broker.lost \/ outcome # "queued"]
    /\ UNCHANGED <<variant, client_sockets, server_socket, baseVars, dptVars,
                   queueVars, startVars, svcVars, mod>>

\* broker.py:32-35: KeyboardInterrupt while the loop waits for a frame
broker_interrupt ==
    /\ variant = "relay"
    /\ broker.pc = "running"
    /\ broker_socket = <<>>
    /\ broker' = [broker EXCEPT !.pc = "stopped"]
    /\ UNCHANGED <<variant, client_sockets, server_socket, baseVars, dptVars,
                   queueVars, startVars, svcVars, broker_socket, module_socket, mod>>

\* lines 137-141 with a single recv_multipart
Drained_once(queue) == Min(Len(queue), 1)

\* dpt_module.py:137-141: the number of frames the loop reads before
\* zmq.Again (or the end of range(1000)) stops it
Drained(queue) == Min(Len(queue), FlushLimit)

\* dpt_module.py:133-141
DptModule_flush_queue(m) ==
    /\ variant = "relay"
    /\ mod[m].pc = "idle"
    /\ LET n == Drained(module_socket[m])
           rest == SubSeq(module_socket[m], n + 1, Len(module_socket[m]))
       IN /\ module_socket' = [module_socket EXCEPT ![m] =
                 [i \in DOMAIN rest |-> [rest[i] EXCEPT !.old = "queued"]]]
          /\ broker_socket' =
                 [i \in DOMAIN broker_socket |->
                     IF broker_socket[i].address = m /\ broker_socket[i].old = "no"
                     THEN [broker_socket[i] EXCEPT !.old = "in_flight"]
                     ELSE broker_socket[i]]
          /\ mod' = [mod EXCEPT ![m] =
                 [IdleModule EXCEPT !.after = "flushed", !.dropped = n]]
    /\ UNCHANGED <<variant, client_sockets, server_socket, baseVars, dptVars,
                   queueVars, startVars, svcVars, broker>>

\* dpt_module.py:77-89, the call and its first poll: t0 is taken, delta_t
\* is 0 and the timeout argument goes to poll unchanged
DptModule_receive(m, from_sender, expected_msg, timeout, raw_bytes) ==
    /\ variant = "relay"
    /\ mod[m].pc = "idle"
    /\ mod' = [mod EXCEPT ![m] =
           [IdleModule EXCEPT !.pc = "poll", !.from_sender = from_sender,
                              !.expected_msg = expected_msg, !.raw_bytes = raw_bytes,
                              !.timed = (timeout # NoTimeout),
                              !.timeout = IF timeout = NoTimeout THEN 0
                                          ELSE timeout * 1000,
                              !.after = IF mod[m].after = "transmitted"
                                        THEN "transmitted" ELSE "none",
                              !.dropped = IF mod[m].after = "transmitted"
                                          THEN mod[m].dropped ELSE 0]]
    /\ UNCHANGED <<variant, client_sockets, server_socket, baseVars, dptVars,
                   queueVars, startVars, svcVars, broker_socket, broker, module_socket>>

\* socket.poll(timeout): None or a negative number waits without end, a
\* float is cut to whole milliseconds
Endless(md) == ~md.timed \/ md.timeout < 0 \/ (md.timeout = 0 /\ md.less)
PollMs(md) ==
    IF md.less /\ md.timeout % 1000 = 0 THEN (md.timeout \div 1000) - 1
    ELSE md.timeout \div 1000

\* what the call leaves behind when it ends
Ended(md, result, raised) ==
    [IdleModule EXCEPT !.result = result, !.raised = raised,
                       !.from_sender = md.from_sender,
                       !.expected_msg = md.expected_msg,
                       !.after = IF md.after = "transmitted" THEN "received"
                                 ELSE "none",
                       !.dropped = md.dropped, !.skipped = md.skipped]

\* lines 86-89 after a continue: delta_t, the seconds since t0, is taken
\* from the timeout, which is in milliseconds, and the poll begins again
Continue(md) ==
    [md EXCEPT !.timeout = IF md.timed THEN @ - md.elapsed ELSE @,
               !.less = md.timed,
               !.polled = 0, !.skipped = @ + 1]

\* lines 99-101: the frame is of the sender that was asked for
FromSender(md, sender) == md.from_sender = NoSender \/ sender = md.from_sender

\* lines 106-108 and 117-119: "not in expected_msg" lets the message pass
Expected(md, msg) == md.expected_msg = NoExpected \/ msg \in md.expected_msg

\* lines 123-128: the poll ended without a frame
receive_timeout(m) ==
    /\ variant = "relay"
    /\ mod[m].pc = "poll"
    /\ ~Endless(mod[m])
    /\ module_socket[m] = <<>>
    /\ mod[m].polled >= PollMs(mod[m])
    /\ mod' = [mod EXCEPT ![m] = Ended(@, NoResult, "ReceiveTimeoutException")]
    /\ UNCHANGED <<variant, client_sockets, server_socket, baseVars, dptVars,
                   queueVars, startVars, svcVars, broker_socket, broker, module_socket>>

\* lines 95-121: POLLIN, the frame is read, filtered, decoded and returned
receive_pollin(m) ==
    /\ variant = "relay"
    /\ mod[m].pc = "poll"
    /\ module_socket[m] # <<>>
    /\ LET frame == Head(module_socket[m])
           md == mod[m]
           returned(msg) == [sender |-> frame.sender, msg |-> msg, sent |-> frame.sent,
                             old |-> frame.old, by |-> frame.by, for |-> frame.for]
       IN /\ module_socket' = [module_socket EXCEPT ![m] = Tail(@)]
          /\ mod' = [mod EXCEPT ![m] =
                IF ~FromSender(md, frame.sender)
                THEN Continue(md)
                ELSE IF md.raw_bytes
                THEN IF ~Expected(md, [bytes |-> frame.msg])
                     THEN Continue(md)
                     ELSE Ended(md, returned([bytes |-> frame.msg]), "none")
                ELSE IF ~Decodable(frame.msg)
                THEN Ended(md, NoResult, "JSONDecodeError")
                ELSE IF ~Expected(md, loads(decode(frame.msg)))
                THEN Continue(md)
                ELSE Ended(md, returned(loads(decode(frame.msg))), "none")]
    /\ UNCHANGED <<variant, client_sockets, server_socket, baseVars, dptVars,
                   queueVars, startVars, svcVars, broker_socket, broker>>

\* Time in the relay variant: a poll that is due, or that has a frame to
\* read, ends before the clock moves on.
TimedPolls == {m \in Modules : mod[m].pc = "poll" /\ ~Endless(mod[m])}
RelayWaits == {PollMs(mod[m]) - mod[m].polled : m \in TimedPolls}

TickRelay ==
    /\ variant = "relay"
    /\ RelayWaits # {}
    /\ \A w \in RelayWaits : w > 0
    /\ \A m \in Modules : mod[m].pc = "poll" => module_socket[m] = <<>>
    /\ LET d == Min(TickMs, CHOOSE w \in RelayWaits : \A v \in RelayWaits : w <= v)
       IN /\ mod' = [m \in Modules |->
                IF m \in TimedPolls
                THEN [mod[m] EXCEPT !.elapsed = Min(@ + d, MaxElapsed),
                                    !.polled = @ + d]
                ELSE mod[m]]
    /\ UNCHANGED <<variant, client_sockets, server_socket, baseVars, dptVars,
                   queueVars, startVars, svcVars, broker_socket, broker, module_socket>>

InitRelay ==
    /\ variant = "relay"
    /\ client_sockets = <<>>
    /\ server_socket = [a \in Addresses |-> <<>>]
    /\ BaseIdle
    /\ DptIdle
    /\ ExtIdle

NextRelay ==
    \/ \E m \in RelayClients :
          \E address \in Destinations \ {m}, message \in RelayPayloads :
              DptModule_transmit(m, address, message)
    \/ \E m \in RelayServices, message \in RelayReplies : service_transmit(m, message)
    \/ \E m \in RelayClients : DptModule_flush_queue(m)
    \/ \E m \in RelayClients :
          \E call \in RelayCalls :
              DptModule_receive(m, call.from_sender, call.expected_msg,
                                call.timeout, FALSE)
    \/ \E m \in RelayServices, raw_bytes \in BOOLEAN :
          DptModule_receive(m, NoSender, NoExpected, NoTimeout, raw_bytes)
    \/ \E m \in Modules : receive_pollin(m)
    \/ \E m \in Modules : receive_timeout(m)
    \/ broker_mediate
    \/ broker_interrupt
    \/ TickRelay

SpecRelay == InitRelay /\ [][NextRelay]_vars

\* A client that is in receive is a running process: a poll that has a
\* frame to read or whose time is up returns, and the clock goes on.
FairRelay ==
    /\ \A m \in Modules : WF_vars(receive_pollin(m))
    /\ \A m \in Modules : WF_vars(receive_timeout(m))
    /\ WF_vars(TickRelay)

SpecRelayFair == InitRelay /\ [][NextRelay]_vars /\ FairRelay

(***************************************************************************)
(* BaseModule.start (base_module.py, lines 81-110): asyncio.run of          *)
(* __entrypoint, which installs the signal handlers, gathers the awaitables *)
(* into tasks, waits for shutdown_signal, cancels the gathered future and   *)
(* awaits it. A task is "pending" while it runs from await to await,        *)
(* "waiting" when it awaits a peer that never answers, "cancelling"         *)
(* between Task.cancel() and the CancelledError it gets at its await, and   *)
(* then "cancelled", or it ends by itself as "done" or "raised". The        *)
(* loops of the library catch no CancelledError.                            *)
(***************************************************************************)
Finished == {"done", "raised", "cancelled"}

\* base_module.py:123-130, called when the module is set up, before start
\* (eva.py:40): a DEALER socket with LINGER 0 is made and stored under the
\* address
register_connection_for_start(a) ==
    /\ variant = "start"
    /\ entry.pc = "new"
    /\ ~Registered(a)
    /\ client_sockets' = (a :> NewSocket) @@ client_sockets
    /\ sockets' = sockets \cup {[name |-> a, linger |-> 0]}
    /\ UNCHANGED <<variant, server_socket, baseVars, dptVars, queueVars, relayVars,
                   svcVars, shutdown_signal, signals, entry, funcs>>

\* lines 88-93: the handlers are installed, gather makes a task of every
\* awaitable, and __entrypoint waits for shutdown_signal
entrypoint_begin ==
    /\ variant = "start"
    /\ entry.pc = "new"
    /\ entry' = [entry EXCEPT !.pc = "wait", !.tasks = "pending"]
    /\ funcs' = [f \in Funcs |-> "pending"]
    /\ UNCHANGED <<variant, client_sockets, server_socket, baseVars, dptVars,
                   queueVars, relayVars, svcVars, sockets, shutdown_signal, signals>>

\* SIGINT or SIGTERM reaches the process while the loop of asyncio.run has
\* the handlers of lines 89-90
signal_delivered(sig) ==
    /\ variant = "start"
    /\ entry.pc \in {"wait", "await", "closing"}
    /\ sig \notin signals
    /\ signals' = signals \cup {sig}
    /\ UNCHANGED <<variant, client_sockets, server_socket, baseVars, dptVars,
                   queueVars, relayVars, svcVars, sockets, shutdown_signal, entry, funcs>>

\* lines 81-84: the loop calls the handler
set_shutdown_signal ==
    /\ variant = "start"
    /\ signals # {}
    /\ ~shutdown_signal
    /\ shutdown_signal' = TRUE
    /\ UNCHANGED <<variant, client_sockets, server_socket, baseVars, dptVars,
                   queueVars, relayVars, svcVars, sockets, signals, entry, funcs>>

\* a task goes on to an await on a peer that never answers
func_waits(f) ==
    /\ variant = "start"
    /\ funcs[f] = "pending"
    /\ funcs' = [funcs EXCEPT ![f] = "waiting"]
    /\ UNCHANGED <<variant, client_sockets, server_socket, baseVars, dptVars,
                   queueVars, relayVars, svcVars, sockets, shutdown_signal, signals, entry>>

\* asyncio.gather, return_exceptions=False: the first child that raises or
\* is cancelled gives the future its exception; the future gets its result
\* when the last child has returned
Gathered(tasks, fs, f) ==
    IF tasks # "pending" THEN tasks
    ELSE IF fs[f] = "raised" THEN "raised"
    ELSE IF fs[f] = "cancelled" THEN "cancelled"
    ELSE IF \A g \in Funcs : fs[g] = "done" THEN "done"
    ELSE "pending"

\* a task returns (op_data's service_loop on SHUTDOWN)
func_returns(f) ==
    /\ variant = "start"
    /\ funcs[f] = "pending"
    /\ funcs' = [funcs EXCEPT ![f] = "done"]
    /\ entry' = [entry EXCEPT !.tasks = Gathered(@, funcs', f)]
    /\ UNCHANGED <<variant, client_sockets, server_socket, baseVars, dptVars,
                   queueVars, relayVars, svcVars, sockets, shutdown_signal, signals>>

\* a task ends with an exception (server_loop on a frame it cannot decode,
\* client_loop on zmq.Again)
func_raises(f) ==
    /\ variant = "start"
    /\ funcs[f] = "pending"
    /\ funcs' = [funcs EXCEPT ![f] = "raised"]
    /\ entry' = [entry EXCEPT !.tasks = Gathered(@, funcs', f)]
    /\ UNCHANGED <<variant, client_sockets, server_socket, baseVars, dptVars,
                   queueVars, relayVars, svcVars, sockets, shutdown_signal, signals>>

\* Task.cancel() on every task that has not finished
Cancel_none(fs) == fs

\* Task.cancel() on every task that has not finished
Cancel(fs) ==
    [f \in Funcs |-> IF fs[f] \in Finished THEN fs[f] ELSE "cancelling"]

\* line 93 if __entrypoint waited for the event or the gathered future
WaitOver_or_done == shutdown_signal \/ entry.tasks # "pending"

\* line 93: "await self.shutdown_signal.wait()" returns when the event is set
WaitOver == shutdown_signal

\* lines 93-98: shutdown_signal.wait() returns; tasks.cancel() cancels the
\* children unless the gathered future is done already, and then "await
\* tasks" does not suspend: it returns the results or raises the exception
\* of the task that failed, __entrypoint ends, and asyncio.run cancels the
\* tasks that are left
entrypoint_shutdown ==
    /\ variant = "start"
    /\ entry.pc = "wait"
    /\ WaitOver
    /\ IF entry.tasks = "pending"
       THEN /\ funcs' = Cancel(funcs)
            /\ entry' = [entry EXCEPT !.pc = "await",
                   !.hung = {f \in Funcs : funcs[f] = "waiting"}]
       ELSE /\ funcs' = [f \in Funcs |->
                   IF funcs[f] \in Finished THEN funcs[f] ELSE "cancelling"]
            /\ entry' = [entry EXCEPT !.pc = "closing",
                   !.raised = IF entry.tasks = "raised" THEN "Exception" ELSE "none",
                   !.hung = {f \in Funcs : funcs[f] = "waiting"}]
    /\ UNCHANGED <<variant, client_sockets, server_socket, baseVars, dptVars,
                   queueVars, relayVars, svcVars, sockets, shutdown_signal, signals>>

\* the loop throws CancelledError into the task at its await
func_cancelled(f) ==
    /\ variant = "start"
    /\ funcs[f] = "cancelling"
    /\ funcs' = [funcs EXCEPT ![f] = "cancelled"]
    /\ entry' = [entry EXCEPT !.tasks = Gathered(@, funcs', f)]
    /\ UNCHANGED <<variant, client_sockets, server_socket, baseVars, dptVars,
                   queueVars, relayVars, svcVars, sockets, shutdown_signal, signals>>

\* lines 95-98: "await tasks" raises CancelledError, it is caught and
\* logged, __entrypoint returns; asyncio.run cancels the tasks that are left
entrypoint_end ==
    /\ variant = "start"
    /\ entry.pc = "await"
    /\ entry.tasks # "pending"
    /\ entry' = [entry EXCEPT !.pc = "closing",
           !.raised = IF entry.tasks = "cancelled" THEN "none" ELSE "Exception"]
    /\ funcs' = [f \in Funcs |->
           IF funcs[f] \in Finished THEN funcs[f] ELSE "cancelling"]
    /\ UNCHANGED <<variant, client_sockets, server_socket, baseVars, dptVars,
                   queueVars, relayVars, svcVars, sockets, shutdown_signal, signals>>

\* lines 109-110: asyncio.run has waited for the cancelled tasks and gives
\* the outcome of __entrypoint to the caller of start
start_ends ==
    /\ variant = "start"
    /\ entry.pc = "closing"
    /\ \A f \in Funcs : funcs[f] \in Finished
    /\ entry' = [entry EXCEPT !.pc = IF entry.raised = "none" THEN "returned"
                                    ELSE "raised"]
    /\ UNCHANGED <<variant, client_sockets, server_socket, baseVars, dptVars,
                   queueVars, relayVars, svcVars, sockets, shutdown_signal, signals, funcs>>

InitStart ==
    /\ variant = "start"
    /\ client_sockets = <<>>
    /\ server_socket = [a \in Addresses |-> <<>>]
    /\ BaseIdle
    /\ DptIdle
    /\ ExtIdle

NextStart ==
    \/ \E a \in Addresses : register_connection_for_start(a)
    \/ entrypoint_begin
    \/ \E sig \in Signals : signal_delivered(sig)
    \/ set_shutdown_signal
    \/ \E f \in Funcs : func_waits(f)
    \/ \E f \in Funcs : func_returns(f)
    \/ \E f \in Funcs : func_raises(f)
    \/ entrypoint_shutdown
    \/ \E f \in Funcs : func_cancelled(f)
    \/ entrypoint_end
    \/ start_ends

\* The event loop of asyncio.run runs every callback that is ready: the
\* signal handler, the steps of __entrypoint, the CancelledError of a
\* cancelled task, and its own cleanup. Nothing makes a signal arrive or a
\* task end by itself.
FairStart ==
    /\ WF_vars(entrypoint_begin)
    /\ WF_vars(set_shutdown_signal)
    /\ WF_vars(entrypoint_shutdown)
    /\ WF_vars(\E f \in Funcs : func_cancelled(f))
    /\ WF_vars(entrypoint_end)
    /\ WF_vars(start_ends)

SpecStart == InitStart /\ [][NextStart]_vars /\ FairStart

(***************************************************************************)
(*        The service loops: OpData (op_data.py), EvaInterface (eva.py)    *)
(*                                                                         *)
(* A service is a BaseModule whose service_loop reads one request with     *)
(* server_receive, matches its first entry and answers with                *)
(* server_transmit. A request is (sender, req_id, msg); of msg the model   *)
(* keeps the request name, the data store decides the rest.                *)
(***************************************************************************)
Senders == {"gui", "cell"}
ReqIds == {1, 2}

\* op_data.py:58-235: the cases of the match; "OTHER" is any msg no case takes
OpDataRequests ==
    {"SHUTDOWN", "NEW_WP", "GET_WP", "GET_ALL_WP_IDS", "DEL_WP", "CHANGE_WP_NAME",
     "NEW_TP", "GET_TP", "DEL_TP", "GET_ALL_TP_IDS", "CHANGE_TP_NAME",
     "ADD_WP_TO_TP", "ADD_GRIP_TO_TP", "ADD_UNGRIP_TO_TP",
     "TP_MOVE_ACTION_TO_POS", "RM_FROM_TP", "OTHER"}

\* eva.py:60-168: the cases of the match
EvaRequests == {"BACKDRIVING_MODE", "STOP_BACKDRIVING", "GOTO_WP", "EXECUTE_TP", "OTHER"}

\* base_module.py:203-216: server_transmit sends [address, resp_id, message]
Response(address, resp_id, message) ==
    [to |-> address, resp_id |-> resp_id, msg |-> message]

\* a client sends a request to the service: it waits on the server socket
client_request(sender, req_id, msg) ==
    /\ variant \in {"opdata", "evaif"}
    /\ msg \in (IF variant = "opdata" THEN OpDataRequests ELSE EvaRequests)
    /\ Len(inbox) < MaxWaiting
    /\ inbox' = Append(inbox, [sender |-> sender, req_id |-> req_id, msg |-> msg])
    /\ UNCHANGED <<variant, client_sockets, server_socket, baseVars, dptVars,
                   queueVars, relayVars, startVars,
                   service, outbox, all_tasks, backdriving_task>>

\* op_data.py:58-235: one pass of the match. tp_id is the local name of
\* service_loop: the cases that capture tp_id bind it, NEW_TP assigns it, and
\* DEL_TP captures wp_id but reads tp_id (line 125). found: find_one returned
\* a document; ok: the result is acknowledged and counts one document.
\* The result: where the loop is next, what it sent, what tp_id is.
OpData_match(msg, tp_id, found, ok) ==
    LET next(sent, id) == [pc |-> "receive", sent |-> sent, tp_id |-> id]
        result == IF ok THEN msg ELSE "UNEXPECTED_FAILURE"
    IN  CASE msg = "SHUTDOWN" ->
                [pc |-> "ended", sent |-> <<>>, tp_id |-> tp_id]
          [] msg = "NEW_WP" ->
                next(<<>>, tp_id)
          [] msg = "GET_WP" ->
                next(<<IF found THEN msg ELSE "NONEXISTENT_OBJECT">>, tp_id)
          [] msg \in {"GET_ALL_WP_IDS", "GET_ALL_TP_IDS"} ->
                next(<<msg>>, tp_id)
          [] msg \in {"DEL_WP", "CHANGE_WP_NAME"} ->
                next(<<result>>, tp_id)
          [] msg = "NEW_TP" ->
                next(<<msg>>, "bound")
          [] msg = "GET_TP" ->
                next(<<IF found THEN msg ELSE "NONEXISTENT_OBJECT">>, "bound")
          [] msg = "DEL_TP" ->
                IF tp_id = "unbound"
                THEN [pc |-> "raised", sent |-> <<>>, tp_id |-> tp_id]
                ELSE next(<<result>>, tp_id)
          [] msg = "CHANGE_TP_NAME" ->
                next(<<result>>, "bound")
          [] msg \in {"ADD_WP_TO_TP", "ADD_GRIP_TO_TP", "ADD_UNGRIP_TO_TP",
                      "TP_MOVE_ACTION_TO_POS", "RM_FROM_TP"} ->
                next(<<IF found THEN result ELSE "NONEXISTENT_OBJECT">>, "bound")
          [] OTHER ->
                next(<<"UNKNOWN_REQUEST">>, tp_id)

\* op_data.py:53-235: one pass of the loop: server_receive takes the oldest
\* request, the match runs, what it sends goes to sender with resp_id = req_id
OpData_service_loop ==
    /\ variant = "opdata"
    /\ service.pc = "receive"
    /\ inbox # <<>>
    /\ \E found \in BOOLEAN, ok \in BOOLEAN :
        LET request == Head(inbox)
            sender == request.sender
            resp_id == request.req_id
            pass == OpData_match(request.msg, service.tp_id, found, ok)
        IN  /\ service' = [pc |-> pass.pc, request |-> request, tp_id |-> pass.tp_id]
            /\ outbox' = [i \in DOMAIN pass.sent |->
                             Response(sender, resp_id, pass.sent[i])]
    /\ inbox' = Tail(inbox)
    /\ UNCHANGED <<variant, client_sockets, server_socket, baseVars, dptVars,
                   queueVars, relayVars, startVars, all_tasks, backdriving_task>>

InitOpData ==
    /\ variant = "opdata"
    /\ client_sockets = <<>>
    /\ server_socket = [a \in Addresses |-> <<>>]
    /\ BaseIdle
    /\ DptIdle
    /\ ExtIdle

NextOpData ==
    \/ \E sender \in Senders, req_id \in ReqIds, msg \in OpDataRequests :
          client_request(sender, req_id, msg)
    \/ OpData_service_loop

SpecOpData == InitOpData /\ [][NextOpData]_vars

\* eva.py:62-64: self.backdriving_task is a task that is neither done nor
\* cancelled
InBackdrivingMode_never(bt) == FALSE
InBackdrivingMode(bt) ==
    IF bt = 0 THEN FALSE ELSE all_tasks[bt].state \notin {"done", "cancelled"}

\* eva.py:70-72: there is no task, or it is cancelled or done
NotInBackdrivingMode(bt) ==
    IF bt = 0 THEN TRUE ELSE all_tasks[bt].state \in {"cancelled", "done"}

\* eva.py:67: asyncio.create_task makes a new task object; the model names it
\* with an id no task that can still run has
NewTask ==
    CHOOSE i \in TaskIds \cup {0} :
        /\ i # 0 => all_tasks[i].state \notin {"pending", "running"}
        /\ \A j \in TaskIds :
               all_tasks[j].state \notin {"pending", "running"} => (i # 0 /\ i <= j)

\* eva.py:56-168: one pass of the loop up to its next await of something
\* other than the server socket. BACKDRIVING_MODE answers at once or makes
\* the task (the task answers); STOP_BACKDRIVING answers at once or cancels
\* the task and awaits it; GOTO_WP answers after goto_wp; EXECUTE_TP runs the
\* tool path and sends nothing; any other msg is answered UNKNOWN_REQUEST.
EvaInterface_service_loop ==
    /\ variant = "evaif"
    /\ service.pc = "receive"
    /\ inbox # <<>>
    /\ inbox' = Tail(inbox)
    /\ LET request == Head(inbox)
           sender == request.sender
           resp_id == request.req_id
           msg == request.msg
           answered(message) ==
               /\ outbox' = <<Response(sender, resp_id, message)>>
               /\ service' = [service EXCEPT !.request = request]
               /\ UNCHANGED <<all_tasks, backdriving_task>>
       IN  \/ /\ msg = "BACKDRIVING_MODE"
              /\ InBackdrivingMode(backdriving_task)
              /\ answered("ALREADY_IN_BACKDRIVING_MODE")
           \/ /\ msg = "BACKDRIVING_MODE"
              /\ ~InBackdrivingMode(backdriving_task)
              /\ NewTask # 0
              /\ all_tasks' = [all_tasks EXCEPT ![NewTask] =
                     [state |-> "pending", must_cancel |-> FALSE,
                      sender |-> sender, resp_id |-> resp_id]]
              /\ backdriving_task' = NewTask
              /\ outbox' = <<>>
              /\ service' = [service EXCEPT !.request = request]
           \/ /\ msg = "STOP_BACKDRIVING"
              /\ NotInBackdrivingMode(backdriving_task)
              /\ answered("NOT_IN_BACKDRIVING_MODE")
           \/ /\ msg = "STOP_BACKDRIVING"
              /\ ~NotInBackdrivingMode(backdriving_task)
              /\ all_tasks' = [all_tasks EXCEPT ![backdriving_task].must_cancel = TRUE]
              /\ outbox' = <<>>
              /\ service' = [service EXCEPT !.request = request, !.pc = "await"]
              /\ UNCHANGED backdriving_task
           \/ /\ msg = "GOTO_WP"
              /\ \E lock_success \in BOOLEAN :
                    answered(IF lock_success THEN "GOTO_WP" ELSE "LOCK_FAILED")
           \/ /\ msg = "EXECUTE_TP"
              /\ outbox' = <<>>
              /\ service' = [service EXCEPT !.request = request]
              /\ UNCHANGED <<all_tasks, backdriving_task>>
           \/ /\ msg = "OTHER"
              /\ answered("UNKNOWN_REQUEST")
    /\ UNCHANGED <<variant, client_sockets, server_socket, baseVars, dptVars,
                   queueVars, relayVars, startVars>>

\* eva.py:185-211: the task begins: with the lock and the websocket it
\* answers BACKDRIVING_MODE and sleeps in its loop; without them it answers
\* LOCK_FAILED and is done
EvaInterface_backdriving(i) ==
    /\ variant = "evaif"
    /\ all_tasks[i].state = "pending"
    /\ ~all_tasks[i].must_cancel
    /\ \E success \in BOOLEAN :
        /\ all_tasks' = [all_tasks EXCEPT ![i].state =
                            IF success THEN "running" ELSE "done"]
        /\ outbox' = Append(outbox, Response(all_tasks[i].sender, all_tasks[i].resp_id,
                            IF success THEN "BACKDRIVING_MODE" ELSE "LOCK_FAILED"))
    /\ UNCHANGED <<variant, client_sockets, server_socket, baseVars, dptVars,
                   queueVars, relayVars, startVars, inbox, service, backdriving_task>>

\* eva.py:76, 205-207: the task that cancel() was called on gets
\* CancelledError at its await (or before its first step) and ends cancelled
backdriving_cancelled(i) ==
    /\ variant = "evaif"
    /\ all_tasks[i].must_cancel
    /\ all_tasks[i].state \in {"pending", "running"}
    /\ all_tasks' = [all_tasks EXCEPT ![i].state = "cancelled"]
    /\ UNCHANGED <<variant, client_sockets, server_socket, baseVars, dptVars,
                   queueVars, relayVars, startVars,
                   inbox, service, outbox, backdriving_task>>

\* eva.py:78: "await self.backdriving_task" goes on when the task has ended
TaskEnded_at_once(i) == TRUE
TaskEnded(i) == all_tasks[i].state \in {"cancelled", "done"}

\* eva.py:77-82: the await of the cancelled task raises CancelledError: the
\* loop forgets the task and answers STOP_BACKDRIVING. A task that ended in
\* another way makes the await return and nothing is sent.
service_loop_resume ==
    /\ variant = "evaif"
    /\ service.pc = "await"
    /\ TaskEnded(backdriving_task)
    /\ service' = [service EXCEPT !.pc = "receive"]
    /\ IF all_tasks[backdriving_task].state # "done"
       THEN /\ backdriving_task' = 0
            /\ outbox' = Append(outbox, Response(service.request.sender,
                                   service.request.req_id, "STOP_BACKDRIVING"))
       ELSE UNCHANGED <<backdriving_task, outbox>>
    /\ UNCHANGED <<variant, client_sockets, server_socket, baseVars, dptVars,
                   queueVars, relayVars, startVars, inbox, all_tasks>>

InitEva ==
    /\ variant = "evaif"
    /\ client_sockets = <<>>
    /\ server_socket = [a \in Addresses |-> <<>>]
    /\ BaseIdle
    /\ DptIdle
    /\ ExtIdle

NextEva ==
    \/ \E sender \in Senders, req_id \in ReqIds, msg \in EvaRequests :
          client_request(sender, req_id, msg)
    \/ EvaInterface_service_loop
    \/ \E i \in TaskIds : EvaInterface_backdriving(i)
    \/ \E i \in TaskIds : backdriving_cancelled(i)
    \/ service_loop_resume

\* The event loop runs every task that is ready: the cancelled task gets its
\* CancelledError and the loop that awaits it goes on. Nothing makes a
\* client send a request.
FairEva ==
    /\ \A i \in TaskIds : WF_vars(backdriving_cancelled(i))
    /\ WF_vars(service_loop_resume)

SpecEva == InitEva /\ [][NextEva]_vars /\ FairEva

Init == InitBase \/ InitDptClient \/ InitDptMessages \/ InitDptServer
           \/ InitDptQueue \/ InitRelay \/ InitStart \/ InitOpData \/ InitEva
Next == NextBase \/ NextDptClient \/ NextDptMessages \/ NextDptServer
           \/ NextDptQueue \/ NextRelay \/ NextStart \/ NextOpData \/ NextEva
Spec == Init /\ [][Next]_vars

(***************************************************************************)
(*                    Properties of BaseModule                             *)
(***************************************************************************)
\* the request a task transmitted is still on its way to, or held by, the
\* peer's application: no reply to it has been sent
InFlight(t) ==
    LET a == task[t].address
    IN \/ \E i \in DOMAIN server_socket[a] : server_socket[a][i].req_id = task[t].req_id
       \/ \E r \in pending[a] : r.req_id = task[t].req_id

\* a reply carrying the id the task waits for is queued on the peer socket
ReplyQueued(t) ==
    LET rx == client_sockets[task[t].address].rx
    IN \E i \in DOMAIN rx : rx[i].resp_id = task[t].want

\* the task sent a request and receives (or is about to) with that request's id
FiltersOwnId(t) ==
    /\ task[t].req_id # NoId
    /\ \/ task[t].pc = "transmitted"
       \/ task[t].pc \in {"poll", "recv", "returned"} /\ task[t].want = task[t].req_id

\* the scenario of C1: every task sent one request to the same registered
\* peer, the request ids are pairwise distinct, and every task filters on
\* its own id
ConcurrentFilteredReceives ==
    /\ \A t \in Tasks : FiltersOwnId(t)
    /\ \A t, u \in Tasks : task[t].address = task[u].address
    /\ \A t, u \in Tasks : t # u => task[t].req_id # task[u].req_id

\* C1: when the tasks sent requests with distinct ids to one peer and each
\* waits with its own id, no task loses its reply: a task still waiting
\* whose request was answered finds the reply queued on the peer socket,
\* and a task that returned got the reply carrying its own id.
C1_EveryTaskGetsItsOwnReply ==
    ConcurrentFilteredReceives =>
        \A t \in Tasks :
            /\ (task[t].pc \in {"poll", "recv"} /\ ~InFlight(t)) => ReplyQueued(t)
            /\ task[t].pc = "returned" => task[t].resp_id = task[t].req_id

\* C2: a receive with a timeout T that has seen no frame with its id is not
\* still polling later than T after the call, whatever other frames came.
C2_TimeoutCountsFromTheCall ==
    \A t \in Tasks :
        ( /\ task[t].pc = "poll"
          /\ task[t].timeout # NoTimeout
          /\ task[t].want # NoId
          /\ task[t].want = task[t].req_id
          /\ InFlight(t) )
        => now <= task[t].started + task[t].timeout

\* C3: what server_receive hands to the peer's application is the payload
\* the client passed to client_transmit, under the request id client_transmit
\* returned, and what client_receive returns for that id is the payload the
\* peer passed to server_transmit.
C3_RoundTripIsTheIdentity ==
    /\ \A a \in Addresses : \A r \in pending[a] :
          /\ r.msg = r.sent
          /\ \E t \in Tasks : task[t].req_id = r.req_id
    /\ \A t \in Tasks :
          (task[t].pc = "returned" /\ task[t].want = task[t].req_id)
          => task[t].result = task[t].sent

(***************************************************************************)
(*               Properties of DptModule, client side                      *)
(***************************************************************************)
\* this step ends a register_connection call with failure
RegistrationFails == reg.pc = "poll" /\ reg'.pc = "idle" /\ reg'.result = "false"

InNeitherMap(a) == a \notin DOMAIN client_sockets /\ ~HasHc(a)

\* C4 as stated: a register_connection that fails leaves both peer maps
\* unchanged and its address is in neither map afterwards.
C4_FailedAddressInNeitherMap ==
    [][RegistrationFails =>
        /\ UNCHANGED <<client_sockets, client_hc_sockets>>
        /\ InNeitherMap(reg.address)']_vars

\* C4 as amended: a register_connection that fails leaves both peer maps
\* unchanged; an address that was in neither map before the call is in
\* neither afterwards (an address registered by an earlier successful call
\* keeps its entries).
C4_FailureLeavesMapsUnchanged ==
    [][RegistrationFails =>
        /\ UNCHANGED <<client_sockets, client_hc_sockets>>
        /\ InNeitherMap(reg.address) => InNeitherMap(reg.address)']_vars

C4_Witness ==
    /\ variant = "dptm"
    /\ reg.pc = "idle" /\ reg.result = "false"
    /\ InNeitherMap(reg.address)
    /\ client_sockets # <<>> /\ client_hc_sockets # <<>>

\* C5: a register_connection call waits for the reply no longer than one
\* poll of 100 ms: once 100 ms have passed it can return, and when no
\* reply came it returns failure without adding the peer.
C5_RegistrationWaitsOnePoll ==
    /\ [](reg.pc = "poll" =>
            /\ reg.waited <= 100
            /\ reg.waited = 100 =>
                  ENABLED (register_connection_timeout \/ register_connection_recv))
    /\ [][(reg.pc = "poll" /\ reg.rx = <<>> /\ reg'.pc # "poll") =>
            /\ reg'.pc = "idle" /\ reg'.result = "false"
            /\ reg.waited = 100
            /\ UNCHANGED <<client_sockets, client_hc_sockets>>]_vars

C5_Witness ==
    /\ variant = "dptm"
    /\ reg.pc = "idle" /\ reg.result = "false" /\ reg.waited = 100
    /\ srv[reg.address] = "stopped"
    /\ InNeitherMap(reg.address)

\* the probe in progress, and how the step that ends it found the socket
Probed == client_hc_sockets[hl.idx].address
ProbeEnds == hl.pc = "poll" /\ (hl'.pc # "poll" \/ hl'.idx # hl.idx)
Unanswered == client_hc_sockets[hl.idx].rx = <<>>
Count(list, a) == Cardinality({i \in DOMAIN list : list[i] = a})

\* C7: an address is never twice in interrupted_sockets; an unanswered
\* probe of a healthy peer appends its address once, further unanswered
\* probes change nothing; the first answered probe of an interrupted peer
\* removes the address, answered probes of a healthy peer change nothing.
C7_OneTransitionPerRun ==
    /\ [](\A a \in Addresses : Count(interrupted_sockets, a) <= 1)
    /\ [][ProbeEnds =>
            IF Unanswered
            THEN interrupted_sockets' =
                    IF InList(Probed, interrupted_sockets) THEN interrupted_sockets
                    ELSE Append(interrupted_sockets, Probed)
            ELSE /\ ~InList(Probed, interrupted_sockets')
                 /\ \A a \in Addresses \ {Probed} :
                       Count(interrupted_sockets', a) = Count(interrupted_sockets, a)
                 /\ ~InList(Probed, interrupted_sockets) =>
                       interrupted_sockets' = interrupted_sockets]_vars

C7_Witness ==
    \E a \in Addresses :
        /\ hl.run[a] = "lost_again"
        /\ Count(interrupted_sockets, a) = 1

\* C8: the step that ends a probe leaves the probed address in
\* interrupted_sockets exactly when the probe found no reply on the
\* heartbeat socket within the 100 ms of its poll; no other step changes
\* interrupted_sockets.
C8_MembershipFollowsTheLastProbe ==
    /\ [](hl.pc = "poll" => hl.waited <= 100)
    /\ [][IF ProbeEnds
          THEN /\ InList(Probed, interrupted_sockets') <=> Unanswered
               /\ Unanswered => hl.waited = 100
          ELSE UNCHANGED interrupted_sockets]_vars

C8_Witness ==
    \E a, b \in Addresses :
        /\ hl.run[a] = "alive" /\ ~InList(a, interrupted_sockets)
        /\ hl.run[b] = "lost" /\ InList(b, interrupted_sockets)
        /\ hl.pc = "sleep"

(***************************************************************************)
(*        Properties of client_transmit and client_receive                 *)
(***************************************************************************)
\* in this step task t of a BaseModule endpoint calls client_transmit or
\* client_receive with address a
BaseCalls(t, a) ==
    /\ task[t].pc \in {"idle", "transmitted"}
    /\ task'[t] # task[t]
    /\ task'[t].address = a

\* in this step the caller of a DptModule endpoint calls client_transmit or
\* client_receive with address a
DptCalls(a) ==
    /\ caller.pc = "idle"
    /\ caller' # caller
    /\ caller'.address = a

\* C6: client_transmit and client_receive with an address that is not a
\* key of client_sockets raise BaseModuleException in the step of the call,
\* put no frame on any server socket, take none from any client socket and
\* leave client_sockets and client_hc_sockets as they were.
C6_UnregisteredAddressFailsFast ==
    [][\A a \in Addresses : a \notin DOMAIN client_sockets =>
        /\ \A t \in Tasks : BaseCalls(t, a) =>
              /\ task'[t].pc = "raised"
              /\ task'[t].raised = "BaseModuleException"
              /\ UNCHANGED <<client_sockets, client_hc_sockets, server_socket>>
        /\ DptCalls(a) =>
              /\ caller'.pc = "idle"
              /\ caller'.raised = "BaseModuleException"
              /\ UNCHANGED <<client_sockets, client_hc_sockets, server_socket>>]_vars

C6_Witness ==
    /\ variant = "dptm"
    /\ caller.raised = "BaseModuleException"
    /\ caller.address \notin DOMAIN client_sockets
    /\ client_sockets # <<>>
    /\ \A a \in Addresses : server_socket[a] = <<>>

(***************************************************************************)
(*               Properties of DptModule, server side                      *)
(***************************************************************************)
ControlFrames == {<<confirm_connection>>, <<check_connection>>}

\* the frame the dispatcher at a read last, and what it did with it
Confirmed(d) ==
    /\ d.frame[1].parts = <<confirm_connection>>
    /\ d.sent = <<[to |-> d.frame[1].sender, msg_bytes |-> connection_confirmed]>>
    /\ d.put = <<>>
Alive(d) ==
    /\ d.frame[1].parts = <<check_connection>>
    /\ d.sent = <<[to |-> d.frame[1].sender, msg_bytes |-> connection_alive]>>
    /\ d.put = <<>>
QueuedOnce(d) ==
    /\ d.frame[1].parts \notin ControlFrames
    /\ d.sent = <<>>
    /\ Len(d.put) = 1 /\ d.put[1].sender = d.frame[1].sender

\* C9: every frame the dispatcher read was handled as exactly one of: a
\* confirm_connection answered with one connection_confirmed to its sender,
\* a check_connection answered with one connection_alive to its sender, an
\* application frame put on server_msg_queue once; and a control frame is
\* not put on server_msg_queue.
C9_EveryFrameIsClassified ==
    \A a \in Addresses :
        /\ last[a].frame # <<>> =>
              (Confirmed(last[a]) \/ Alive(last[a]) \/ QueuedOnce(last[a]))
        /\ (last[a].frame # <<>> /\ last[a].frame[1].parts \in ControlFrames) =>
              last[a].put = <<>>

\* everything the endpoint's state says about peers
KnownPeers ==
    DOMAIN client_sockets \cup HcAddresses
    \cup {interrupted_sockets[i] : i \in DOMAIN interrupted_sockets}

\* C10 as stated: after the dispatcher handled a confirm_connection it has
\* answered connection_confirmed and the sender is recorded as a known peer.
C10_SenderIsRecorded ==
    \A a \in Addresses :
        (last[a].frame # <<>> /\ last[a].frame[1].parts = <<confirm_connection>>)
        => /\ Confirmed(last[a])
           /\ last[a].frame[1].sender \in KnownPeers

\* the dispatcher at a takes the frame at the head of its socket
Dispatches(a) ==
    /\ srv[a] = "running"
    /\ server_socket[a] # <<>>
    /\ server_socket'[a] = Tail(server_socket[a])

\* C10 as amended: on a confirm_connection frame the dispatcher replies
\* connection_confirmed to the sender, the first time and every further
\* time; it keeps running and records nothing about the sender: the peer
\* maps, interrupted_sockets and server_msg_queue stay as they are.
C10_ConfirmIsAnsweredEachTime ==
    [][\A a \in Addresses :
        (Dispatches(a) /\ Head(server_socket[a]).parts = <<confirm_connection>>)
        => /\ last'[a].frame = <<Head(server_socket[a])>>
           /\ Confirmed(last'[a])
           /\ srv'[a] = "running"
           /\ UNCHANGED <<client_sockets, client_hc_sockets, interrupted_sockets,
                           server_msg_queue>>]_vars

C10_Witness ==
    \E a \in Addresses :
        /\ last[a].frame # <<>>
        /\ Confirmed(last[a])
        /\ last[a].frame[1].sender \in last[a].seen

\* a frame the dispatcher can neither answer nor decode: the unpacking at
\* line 218 needs two parts, lines 229-231 need ASCII bytes holding JSON
Malformed(frame) ==
    \/ Len(frame.parts) # 1
    \/ /\ <<frame.parts[1]>> \notin ControlFrames
       /\ ~Decodable(frame.parts[1])

\* C12: when the dispatcher reads a frame whose part count is wrong or
\* whose payload is not ASCII or not JSON, the frame is dropped, nothing is
\* put on server_msg_queue for it, and the dispatcher loop goes on running
\* to process the frames that follow.
C12_MalformedFrameIsDroppedAndLoopGoesOn ==
    [][\A a \in Addresses :
        (Dispatches(a) /\ Malformed(Head(server_socket[a])))
        => /\ srv'[a] = "running"
           /\ server_msg_queue'[a] = server_msg_queue[a]]_vars

(***************************************************************************)
(*               Properties of the health monitor's error handling         *)
(***************************************************************************)
\* C19: client_loop never raises to the application: a failed non-blocking
\* send of check_connection, or any other error during a probing round, is
\* handled inside the loop.
C19_HealthLoopNeverRaises == hl.pc # "raised"

(***************************************************************************)
(*               Properties of the ServiceQueue (server_msg_queue)         *)
(***************************************************************************)
\* the numbers of the items grow along the sequence
Ascending(items) ==
    \A i, j \in DOMAIN items : i < j => items[i].msg.int < items[j].msg.int

\* C11: server_receive hands out the application frames in the order in
\* which they arrived on the bound socket and each at most once, however
\* the dispatcher (started, cancelled and started again) and the consuming
\* application interleave: the numbers of the delivered items, which are
\* the frames' places in the order of arrival, only grow.
C11_DeliveredInArrivalOrderAtMostOnce ==
    \A a \in Addresses :
        /\ Ascending(delivered[a])
        /\ \A i \in DOMAIN delivered[a] : delivered[a][i].msg.int \in 1..arrived[a]

C11_Witness ==
    \E a \in Addresses :
        /\ Len(delivered[a]) >= 2
        /\ server_msg_queue[a] # <<>>

\* C14: flush_server_queue removes every entry that is on server_msg_queue
\* when it is called: when the call is over the queue is empty.
C14_DrainEmptiesTheQueue ==
    [][\A a \in Addresses :
        flushed'[a] # flushed[a] => server_msg_queue'[a] = <<>>]_vars

\* the dispatcher tasks of the server at a whose read on the bound socket
\* is pending: the task the application holds, and a cancelled task that
\* has not ended
ReadsPending(a) ==
    (IF srv[a] = "running" THEN 1 ELSE 0) + (IF cancelled[a] = "reading" THEN 1 ELSE 0)

Mediates ==
    /\ broker.pc = "running"
    /\ broker_socket # <<>>
    /\ broker_socket' = Tail(broker_socket)

\* C15: for every frame [sender][destination][empty][payload] the relay
\* reads it calls send once, with [destination][sender][empty][payload] and
\* the payload bytes as they came; and a frame reaches a client's socket
\* only in this way: it is the frame at the head of the relay's socket,
\* addressed to that client, with its sender and payload.
C15_EachFrameIsForwardedOnceAsItCame ==
    [][/\ Mediates =>
            LET frame == Head(broker_socket)
            IN broker'.forwarded =
                   <<[frame |-> <<frame.sender, frame.address, empty, frame.msg>>,
                      sent |-> << <<frame.address, frame.sender, empty, frame.msg>> >>]>>
       /\ \A m \in Modules :
            Len(module_socket'[m]) > Len(module_socket[m]) =>
               /\ Mediates
               /\ Head(broker_socket).address = m
               /\ Len(module_socket'[m]) = Len(module_socket[m]) + 1
               /\ LET got == module_socket'[m][Len(module_socket'[m])]
                  IN /\ got.sender = Head(broker_socket).sender
                     /\ got.delimiter = empty
                     /\ got.msg = Head(broker_socket).msg]_vars

C15_Witness ==
    /\ broker.forwarded # <<>>
    /\ module_socket["op_data"] # <<>>
    /\ module_socket["ui"] # <<>>

\* C17: when the relay forwards a frame whose destination identity is not
\* connected, the frame is lost and nothing else happens: the loop keeps
\* running with the later frames still to be forwarded, no client's socket
\* and no client's call is touched.
C17_UnknownDestinationIsLostSilently ==
    [][(Mediates /\ ~Connected(Head(broker_socket).address))
        => /\ broker'.pc = "running"
           /\ broker'.lost
           /\ module_socket' = module_socket
           /\ mod' = mod]_vars

\* a frame was lost, and the last pass delivered a later frame
C17_Witness ==
    /\ broker.lost
    /\ broker.pc = "running"
    /\ broker.forwarded # <<>>
    /\ broker.forwarded[1].frame[2] = "op_data"
    /\ module_socket["op_data"] # <<>>

\* C16: a payload a client transmits to a connected client comes out of that
\* client's receive as the pair of the sender's identity and the payload
\* that was transmitted.
C16_ReceiveReturnsSenderAndPayload ==
    \A m \in Modules :
        mod[m].result # NoResult =>
            /\ mod[m].result.for = m
            /\ mod[m].result.sender = mod[m].result.by
            /\ mod[m].result.msg = mod[m].result.sent

\* C13 as stated: after flush_queue, a following transmit and receive
\* return no message that was sent before the flush.
C13_NothingSentBeforeTheFlushIsReturned ==
    \A m \in Modules :
        (mod[m].after = "received" /\ mod[m].result # NoResult)
            => mod[m].result.old = "no"

\* C13: flush_queue discards the messages that are queued on the client's
\* socket when it is called (up to FlushLimit of them), so none of these is
\* left on the socket or returned by a later receive; a message that is
\* still on its way through the relay at that time is not discarded.
C13_QueuedFramesAreDropped ==
    \A m \in Modules :
        /\ \A i \in DOMAIN module_socket[m] : module_socket[m][i].old # "queued"
        /\ mod[m].result # NoResult => mod[m].result.old # "queued"

\* flush_queue dropped a stale frame, and the transmit and receive that
\* followed returned a message
C13_Witness ==
    \E m \in Modules :
        /\ mod[m].after = "received"
        /\ mod[m].dropped >= 1
        /\ mod[m].result # NoResult

(***************************************************************************)
(*               Properties of BaseModule.start                            *)
(***************************************************************************)
StartEnded == entry.pc \in {"returned", "raised"}

Outstanding_request(t) ==
    /\ task[t].req_id # NoId
    /\ task[t].pc \in {"transmitted", "poll", "recv"}

\* C21: among the requests of one endpoint that are outstanding at the same
\* time no two carry the same req_id, also when two client_transmit calls
\* pass the same payload at the same clock reading.
C21_OutstandingIdsDiffer ==
    \A t1, t2 \in Tasks :
        (t1 # t2 /\ Outstanding_request(t1) /\ Outstanding_request(t2))
            => task[t1].req_id # task[t2].req_id

(***************************************************************************)
(*               Properties of cancelling the dispatcher                   *)
(***************************************************************************)
\* the numbers of the application frames that have been read from the bound
\* socket: the one read for the recv_multipart the dispatcher awaits, those
\* on the queue and those server_receive has handed out
ReadNumbers(a) ==
    {loads(decode(received[a][i].parts[1])).int :
        i \in {j \in DOMAIN received[a] : ControlReply(received[a][j].parts[1]) = <<>>}}
QueuedNumbers(a) == {server_msg_queue[a][i].msg.int : i \in DOMAIN server_msg_queue[a]}
DeliveredNumbers(a) == {delivered[a][i].msg.int : i \in DOMAIN delivered[a]}

\* C22: cancelling the dispatcher at any suspension point loses no frame: an
\* application frame that has been read from the bound socket is, after
\* every step, still on its way to the queue, on the queue or handed out.
C22_NoFrameIsReadAndLost ==
    [][\A a \in Addresses :
          (ReadNumbers(a) \cup QueuedNumbers(a) \cup DeliveredNumbers(a))
             \subseteq (ReadNumbers(a) \cup QueuedNumbers(a) \cup DeliveredNumbers(a))']_vars

(***************************************************************************)
(*               Properties of the connection maps                         *)
(***************************************************************************)
\* C23: after any sequence of register_connection calls every registered
\* address is a key of client_sockets once, client_hc_sockets holds one
\* heartbeat socket for each address it knows, and the two maps have the
\* same keys.
C23_OneDataAndOneHeartbeatSocketPerPeer ==
    /\ DOMAIN client_sockets = HcAddresses
    /\ DOMAIN client_sockets \subseteq Addresses
    /\ \A i, j \in DOMAIN client_hc_sockets :
          client_hc_sockets[i].address = client_hc_sockets[j].address => i = j

\* a peer that was registered has been registered again
C23_Witness ==
    /\ reg.pc = "idle"
    /\ reg.result = "true"
    /\ reg.again
    /\ Registered(reg.address)
    /\ HasHc(reg.address)

(***************************************************************************)
(*               Properties of the control frames on the client side       *)
(***************************************************************************)
\* client_receive reads the frame at the head of the peer's data socket
ClientReceiveReads ==
    /\ caller.pc = "poll"
    /\ caller'.pc # "poll"
    /\ client_sockets[caller.address].rx # <<>>
    /\ client_sockets'[caller.address].rx = Tail(client_sockets[caller.address].rx)

ReceiveReads(m) ==
    /\ mod[m].pc = "poll"
    /\ module_socket[m] # <<>>
    /\ module_socket'[m] = Tail(module_socket[m])

\* The call of m was made with from_sender and expected_msg.
Selective(m) == mod[m].from_sender # NoSender /\ mod[m].expected_msg # NoExpected

\* The head frame is from the sender the call asked for and its content is
\* one of the expected messages.
AskedFor(m) ==
    LET frame == Head(module_socket[m])
    IN /\ frame.sender = mod[m].from_sender
       /\ IF mod[m].raw_bytes THEN [bytes |-> frame.msg] \in mod[m].expected_msg
          ELSE /\ Decodable(frame.msg)
               /\ loads(decode(frame.msg)) \in mod[m].expected_msg

\* A selective call returns only a pair of its sender and an expected
\* message.
ReturnsOnlyAskedFor ==
    \A m \in Modules :
        (ReceiveReads(m) /\ Selective(m) /\ mod'[m].result # NoResult) =>
            /\ mod'[m].result.sender = mod[m].from_sender
            /\ mod'[m].result.msg \in mod[m].expected_msg

\* A selective call skips every other frame it reads: the call goes on
\* polling and has returned and raised nothing.
SkipsTheRest ==
    \A m \in Modules :
        (ReceiveReads(m) /\ Selective(m) /\ ~AskedFor(m)) =>
            /\ mod'[m].pc = "poll"
            /\ mod'[m].result = NoResult
            /\ mod'[m].raised = "none"

\* C25: receive(from_sender=S, expected_msg=E) of a relay client returns
\* only a pair (S, m) with m in E, and every frame it reads that is from
\* another sender or has other content is skipped and not returned.
C25_ReceiveReturnsOnlyWhatWasAskedFor ==
    [][ReturnsOnlyAskedFor /\ SkipsTheRest]_vars

\* C26: a receive call of a relay client that was given a timeout ends,
\* with a message or with ReceiveTimeoutException, whatever frames it
\* skips on the way.
C26_TimedReceiveEnds ==
    \A m \in Modules : (mod[m].pc = "poll" /\ mod[m].timed) ~> (mod[m].pc = "idle")

\* C27: on shutdown every socket the endpoint owns, the bound server socket
\* and the socket of every registered peer, is closed with zero linger, so
\* that nothing pending is kept and no peer connection remains: once
\* __entrypoint is past the cancellation every socket that is still open
\* has LINGER 0, and when start has ended no socket is open and
\* client_sockets is empty.
C27_ShutdownClosesEverySocket ==
    /\ entry.pc \in {"closing", "returned", "raised"} =>
           \A s \in sockets : s.linger = 0
    /\ StartEnded => (sockets = {} /\ DOMAIN client_sockets = {})

\* The payloads of the frames from sender s to destination d that are on
\* the way, oldest first: those on d's socket, then those still on the
\* relay's socket.
OnTheWay(s, d) ==
    LET there == SelectSeq(module_socket[d], LAMBDA f : f.sender = s)
        here == SelectSeq(broker_socket, LAMBDA f : f.sender = s /\ f.address = d)
    IN [i \in 1..Len(there) |-> there[i].msg] \o [i \in 1..Len(here) |-> here[i].msg]

\* p is q with some elements left out
RECURSIVE IsSubsequence(_, _)
IsSubsequence(p, q) ==
    IF p = <<>> THEN TRUE
    ELSE IF q = <<>> THEN FALSE
    ELSE IF Head(p) = Head(q) THEN IsSubsequence(Tail(p), Tail(q))
    ELSE IsSubsequence(p, Tail(q))

\* In a step the frames on the way keep their order: frames leave (read,
\* flushed or dropped), and a new frame comes last.
KeepsOrder(s, d) ==
    LET before == OnTheWay(s, d)
        after == OnTheWay(s, d)'
    IN \/ IsSubsequence(after, before)
       \/ /\ after # <<>>
          /\ IsSubsequence(SubSeq(after, 1, Len(after) - 1), before)

\* C28: the relay forwards frames in the order it received them and holds
\* at most one frame at a time: a pass of its loop takes the oldest frame
\* on its socket and sends it, once, before it reads the next, so the
\* frames from one sender to one destination stay in their sending order
\* all the way to the destination's socket.
C28_FramesAreForwardedInOrder ==
    [][/\ \A s, d \in Modules : s # d => KeepsOrder(s, d)
       /\ (broker.pc = "running" /\ Len(broker_socket') < Len(broker_socket)) =>
             /\ broker_socket' = Tail(broker_socket)
             /\ Len(broker'.forwarded) = 1
             /\ broker'.forwarded[1].frame[4] = Head(broker_socket).msg
             /\ Len(broker'.forwarded[1].sent) = 1]_vars

\* two different frames from ui have been forwarded to op_data and wait
\* there in the order in which ui sent them
C28_Witness ==
    /\ Len(module_socket["op_data"]) = 2
    /\ module_socket["op_data"][1].sender = "ui"
    /\ module_socket["op_data"][2].sender = "ui"
    /\ module_socket["op_data"][1].msg # module_socket["op_data"][2].msg
    /\ broker.forwarded # <<>>

\* Task t is at recv_multipart and the step is its own: it reads the frame
\* at the head of the peer socket.
ClientReceiveRecv(t) == task[t].pc = "recv" /\ task'[t] # task[t]

\* The frame t reads carries another id than the one it waits for.
ForeignFrame(t) ==
    /\ task[t].want # NoId
    /\ Head(client_sockets[task[t].address].rx).resp_id # task[t].want

\* C29: client_receive consumes every frame it reads. The frame leaves the
\* peer socket in the step that reads it; when its id differs from req_id
\* the call returns nothing and polls again, no other task gets the frame
\* and it is put on no socket. A call's result is the frame it read in the
\* step that ended it, so a frame that was read and dropped is returned by
\* no later or concurrent call.
C29_ReadFramesAreConsumed ==
    [][/\ \A t \in Tasks : ClientReceiveRecv(t) =>
             LET a == task[t].address
             IN /\ client_sockets'[a].rx = Tail(client_sockets[a].rx)
                /\ ForeignFrame(t) =>
                      /\ task'[t].pc = "poll"
                      /\ task'[t].result = NoResult
                      /\ \A u \in Tasks \ {t} : task'[u] = task[u]
                      /\ \A b \in DOMAIN client_sockets :
                             b # a => client_sockets'[b] = client_sockets[b]
       /\ \A t \in Tasks :
             (task'[t].result # task[t].result /\ task'[t].result # NoResult) =>
                 /\ ClientReceiveRecv(t)
                 /\ ~ForeignFrame(t)
                 /\ LET frame == Head(client_sockets[task[t].address].rx)
                    IN /\ task'[t].resp_id = frame.resp_id
                       /\ task'[t].sent = frame.sent]_vars

\* a reply was read and dropped by the other task: both tasks wait with
\* their own ids, t2's request was answered, and its reply is on no socket
C29_Witness ==
    /\ ConcurrentFilteredReceives
    /\ task["t1"].pc = "poll"
    /\ task["t2"].pc = "poll"
    /\ ~InFlight("t2")
    /\ ~ReplyQueued("t2")

\* The probe of this round has not been answered and will not be: it still
\* waits on the peer's bound socket (the frames are read in their order, so
\* the newest probe is among those that wait), and the peer's dispatcher is
\* not running (when it starts again it drops the frames that wait).
ProbeUnanswered(a) ==
    /\ srv[a] # "running"
    /\ \E i \in DOMAIN server_socket[a] :
           /\ server_socket[a][i].sender = hc_name
           /\ server_socket[a][i].parts = <<check_connection>>

\* C30: when the round's probe of a peer is not answered, the peer is in
\* interrupted_sockets at the end of the round: a connection_alive that
\* answers an earlier probe and came after that probe's timeout does not
\* count for the probe of this round.
C30_StaleReplyDoesNotCount ==
    [][\A a \in Addresses :
          (ProbeEnds /\ Probed = a /\ ProbeUnanswered(a)) =>
              InList(a, interrupted_sockets')]_vars

\* A registration has added a peer since the probing round in progress
\* began.
GrewDuringRound == hl.pc = "poll" /\ Len(client_hc_sockets) > hl.size

\* C31: a register_connection call that completes while a probing round is
\* in progress leaves the health loop running: the round goes on with the
\* peers it began with (the next of them is probed, unless its pipe is
\* full) and after the last of them the loop sleeps until the next round.
C31_RegistrationLeavesTheRoundRunning ==
    [][(ProbeEnds /\ GrewDuringRound) =>
          IF hl.idx < hl.size
          THEN \/ hl'.pc = "poll" /\ hl'.idx = hl.idx + 1
               \/ PipeFull(client_hc_sockets[hl.idx + 1].address, hc_name)
          ELSE hl'.pc = "sleep"]_vars

\* server_loop is started, for the first time or again, at address a
ServerLoopStarts(a) == srv[a] # "running" /\ srv'[a] = "running"

\* C32: each time server_loop is started, the frames that wait on the bound
\* socket at that moment are dropped before a frame is dispatched: the
\* start answers none of them and queues none of them, and the dispatcher
\* only ever handles the frame that is at the head of the socket when it
\* reads, so a frame dropped at the start gets no reply (a confirm_connection
\* among them is never answered) and never reaches server_msg_queue.
C32_StartDropsThePendingFrames ==
    [][\A a \in Addresses :
        /\ ServerLoopStarts(a) =>
              /\ server_socket'[a] = <<>>
              /\ last'[a].dropped = server_socket[a]
              /\ last'[a].frame = <<>> /\ last'[a].sent = <<>> /\ last'[a].put = <<>>
              /\ UNCHANGED <<server_msg_queue, app, client_sockets, client_hc_sockets, reg>>
        /\ (last'[a] # last[a] /\ ~ServerLoopStarts(a)) =>
              /\ Dispatches(a)
              /\ last'[a].frame = <<Head(server_socket[a])>>
        /\ Len(server_msg_queue'[a]) > Len(server_msg_queue[a]) =>
              /\ Dispatches(a)
              /\ server_msg_queue'[a] = Append(server_msg_queue[a],
                     [sender |-> Head(server_socket[a]).sender,
                      msg |-> loads(decode(Head(server_socket[a]).parts[1]))])]_vars

\* the loop was started again while a confirm_connection and an application
\* frame waited: both were dropped, nothing was sent and nothing is queued
C32_Witness ==
    \E a \in Addresses :
        /\ srv[a] = "running"
        /\ last[a].confirmed # {}
        /\ \E i \in DOMAIN last[a].dropped : last[a].dropped[i].parts = <<confirm_connection>>
        /\ \E i \in DOMAIN last[a].dropped :
               /\ Len(last[a].dropped[i].parts) = 1
               /\ ControlReply(last[a].dropped[i].parts[1]) = <<>>
               /\ Decodable(last[a].dropped[i].parts[1])
        /\ last[a].sent = <<>>
        /\ server_msg_queue[a] = <<>>

\* C33: start returns only after the shutdown signal has been set. While it
\* is not set, __entrypoint has not gone past its wait, whatever became of
\* the tasks: when every task has returned or failed, start still waits and
\* the exception of a failed task has not been raised to the caller.
C33_StartWaitsForTheSignal ==
    ~shutdown_signal =>
        /\ entry.pc \in {"new", "wait"}
        /\ entry.raised = "none"
        /\ ~StartEnded

\* every task has ended, one of them with an exception, no signal was
\* delivered, and start is still waiting
C33_Witness ==
    /\ entry.pc = "wait"
    /\ \A f \in Funcs : funcs[f] \in {"done", "raised"}
    /\ \E f \in Funcs : funcs[f] = "raised"
    /\ entry.tasks = "raised"
    /\ signals = {}
    /\ ~shutdown_signal

(***************************************************************************)
(*                    Properties of the service loops                      *)
(***************************************************************************)
\* C34: every request other than SHUTDOWN that the data-store service loop
\* has read got exactly one response, sent to the sender of the request with
\* resp_id equal to its req_id, before the loop reads the next request (the
\* outbox holds what was sent since the request was read).
C34_EveryRequestGetsOneResponse ==
    (variant = "opdata" /\ service.request # NoRequest
        /\ service.request.msg # "SHUTDOWN")
    => /\ Len(outbox) = 1
       /\ outbox[1].to = service.request.sender
       /\ outbox[1].resp_id = service.request.req_id

\* the backdriving tasks that can still run
ActiveTasks == {i \in TaskIds : all_tasks[i].state \in {"pending", "running"}}

\* the service loop of the robot interface reads a request with this msg
EvaReads(msg) ==
    /\ variant = "evaif"
    /\ service.pc = "receive"
    /\ inbox # <<>>
    /\ Head(inbox).msg = msg
    /\ inbox' = Tail(inbox)

\* C35: in the robot-interface service loop at most one backdriving task is
\* active at any time, and a BACKDRIVING_MODE request that is read while a
\* backdriving task is active makes no task, leaves backdriving_task as it
\* is and is answered ALREADY_IN_BACKDRIVING_MODE to its sender with its id.
C35_OneBackdrivingTask ==
    /\ [](Cardinality(ActiveTasks) <= 1)
    /\ [][(EvaReads("BACKDRIVING_MODE") /\ ActiveTasks # {})
          => /\ all_tasks' = all_tasks
             /\ backdriving_task' = backdriving_task
             /\ service'.pc = "receive"
             /\ outbox' = <<Response(Head(inbox).sender, Head(inbox).req_id,
                                     "ALREADY_IN_BACKDRIVING_MODE")>>]_vars

\* a second BACKDRIVING_MODE request was answered while the task of the
\* first one runs
C35_Witness ==
    /\ variant = "evaif"
    /\ service.request.msg = "BACKDRIVING_MODE"
    /\ backdriving_task # 0
    /\ all_tasks[backdriving_task].state = "running"
    /\ all_tasks[backdriving_task].resp_id # service.request.req_id
    /\ Len(outbox) = 1
    /\ outbox[1].msg = "ALREADY_IN_BACKDRIVING_MODE"
    /\ outbox[1].resp_id = service.request.req_id

\* self.backdriving_task is a task that can still run
TaskIsActive ==
    IF backdriving_task = 0 THEN FALSE
    ELSE all_tasks[backdriving_task].state \in {"pending", "running"}

\* the one reply the request the loop holds has got
AnsweredOnce(messages) ==
    /\ Len(outbox) = 1
    /\ outbox[1].to = service.request.sender
    /\ outbox[1].resp_id = service.request.req_id
    /\ outbox[1].msg \in messages

\* C36: every STOP_BACKDRIVING request the robot-interface service loop
\* reads gets exactly one reply with the id of the request. When no task is
\* active the reply is NOT_IN_BACKDRIVING_MODE, sent at once. When a task is
\* active nothing is sent while the loop awaits the task it cancelled; the
\* reply STOP_BACKDRIVING is sent in the step in which the task has ended
\* cancelled and backdriving_task is reset to None, and that step comes.
C36_StopBackdrivingIsAnsweredOnce ==
    /\ [][EvaReads("STOP_BACKDRIVING")
          => IF TaskIsActive
             THEN /\ service'.pc = "await"
                  /\ outbox' = <<>>
                  /\ backdriving_task' = backdriving_task
             ELSE /\ service'.pc = "receive"
                  /\ outbox' = <<Response(Head(inbox).sender, Head(inbox).req_id,
                                          "NOT_IN_BACKDRIVING_MODE")>>]_vars
    /\ [][(variant = "evaif" /\ service.pc = "await")
          => \/ /\ service'.pc = "await"
                /\ outbox' = outbox
                /\ backdriving_task' = backdriving_task
             \/ /\ service'.pc = "receive"
                /\ all_tasks[backdriving_task].state = "cancelled"
                /\ all_tasks' = all_tasks
                /\ backdriving_task' = 0
                /\ outbox' = <<Response(service.request.sender, service.request.req_id,
                                        "STOP_BACKDRIVING")>>]_vars
    /\ []((variant = "evaif" /\ service.request.msg = "STOP_BACKDRIVING")
          => IF service.pc = "await"
             THEN outbox = <<>>
             ELSE AnsweredOnce({"STOP_BACKDRIVING", "NOT_IN_BACKDRIVING_MODE"}))
    /\ (variant = "evaif" /\ service.pc = "await") ~> (service.pc = "receive")

\* a running task was stopped: it has ended cancelled, backdriving_task is
\* None and the one reply STOP_BACKDRIVING has the id of the request
C36_Witness ==
    /\ variant = "evaif"
    /\ service.pc = "receive"
    /\ service.request.msg = "STOP_BACKDRIVING"
    /\ backdriving_task = 0
    /\ \E i \in TaskIds : all_tasks[i].state = "cancelled"
    /\ AnsweredOnce({"STOP_BACKDRIVING"})

====
